---- MODULE Spec2Model ----
(***************************************************************************)
(* Cover Art Resolution Engine of bazzite-sunshine-manager.                *)
(*                                                                         *)
(* Strings are TLC strings (Len, SubSeq and \o work on them), so the       *)
(* substring tests, the lower-casing and the URL pattern of the importer   *)
(* are computed character by character.  A JSON value is a record          *)
(*   [t |-> "str" | "num" | "null" | "bool" | "dict" | "list" | "err",      *)
(*    s |-> the leaf's text (for a non-string leaf: Python's str(v)),      *)
(*    items |-> the children: values for a list, [k, v] pairs in           *)
(*              insertion order for a dict]                                *)
(***************************************************************************)
EXTENDS Integers, Sequences, FiniteSets, TLC

VARIABLES
    doc,        \* the JSON value handed to _walk_json
    walked,     \* the (path, node) pairs _walk_json yielded, in order
    corpus,     \* the *.json files under hero_conf_root (a set: a directory)
    gid,        \* the game identifier being resolved
    fn,         \* the operation that ran last
    arg,        \* the arguments of the last operation
    scan,       \* what the last heroic_find_image_url_for_gid computed
    found,      \* every URL heroic_find_image_url_for_gid returned so far
    disk,       \* destination path -> the image file there (or NoFile)
    ret,        \* the value the last operation returned
    reqs,       \* the network requests the last operation issued, in order
    trail,      \* the stages add_heroic went through for the last game
    heroic_apps, \* the app entries add_heroic appended
    convs,      \* the calls of stretch_png_600x900 of the last operation, in order
    sgdb,       \* what the last sgdb_search_by_name got and picked
    run,        \* the games import_heroic discovered, its settings and its position
    apps,       \* the app entries import_steam appended, then the list main collects
    fs          \* apps.json, its backup, and the temporary files that exist

vars == <<doc, walked, corpus, gid, fn, arg, scan, found, disk, ret, reqs, trail, heroic_apps,
          convs, sgdb, run, apps, fs>>

----------------------------------------------------------------------------
(* Bounds of the model *)

\* nodes of a generated JSON document handed to the tree walker
MaxNodes == 4
\* files of a corpus directory
MaxFiles == 2
\* games add_heroic is called for in one import
MaxApps == 1

----------------------------------------------------------------------------
(* Strings *)

\* s[i], as a one-character string
CharAt(s, i) == SubSeq(s, i, i)

\* sub in s  (Python's substring test)
Contains(s, sub) ==
    \E i \in 1..(Len(s) - Len(sub) + 1) : SubSeq(s, i, i + Len(sub) - 1) = sub

\* s.endswith(p)
EndsWith(s, p) == Len(s) >= Len(p) /\ SubSeq(s, Len(s) - Len(p) + 1, Len(s)) = p

Upper == <<"A","B","C","D","E","F","G","H","I","J","K","L","M",
           "N","O","P","Q","R","S","T","U","V","W","X","Y","Z">>
LowerOf == <<"a","b","c","d","e","f","g","h","i","j","k","l","m",
             "n","o","p","q","r","s","t","u","v","w","x","y","z">>

Range(f) == {f[i] : i \in DOMAIN f}

\* the lower-case letter of each upper-case letter
LowerMap == [c \in Range(Upper) |-> LowerOf[CHOOSE i \in 1..26 : Upper[i] = c]]

LowerChar(c) == IF c \in DOMAIN LowerMap THEN LowerMap[c] ELSE c

\* s.lower(), from position i on
RECURSIVE LowerFrom(_, _)
LowerFrom(s, i) ==
    IF i > Len(s) THEN "" ELSE LowerChar(CharAt(s, i)) \o LowerFrom(s, i + 1)

\* s.lower()
Lower(s) == LowerFrom(s, 1)

\* s.split(sep, 1)[0] for a one-character sep: the text before the first sep
BeforeFirst(s, sep) ==
    IF \E i \in 1..Len(s) : CharAt(s, i) = sep
    THEN LET i == CHOOSE j \in 1..Len(s) :
                    /\ CharAt(s, j) = sep
                    /\ \A h \in 1..(j - 1) : CharAt(s, h) # sep
         IN  SubSeq(s, 1, i - 1)
    ELSE s

\* the number of elements of the tuple kws that are substrings of s
RECURSIVE CountIn(_, _)
CountIn(kws, s) ==
    IF kws = <<>> THEN 0
    ELSE (IF Contains(s, Head(kws)) THEN 1 ELSE 0) + CountIn(Tail(kws), s)

----------------------------------------------------------------------------
(* JSON values *)

Str(s)  == [t |-> "str",  s |-> s, items |-> <<>>]
Num(s)  == [t |-> "num",  s |-> s, items |-> <<>>]
Null    == [t |-> "null", s |-> "None", items |-> <<>>]
List(x) == [t |-> "list", s |-> "", items |-> x]
Dict(x) == [t |-> "dict", s |-> "", items |-> x]
KV(k, v) == [k |-> k, v |-> v]

\* isinstance(node, dict), isinstance(node, list), isinstance(node, str)
IsDict(node) == node.t = "dict"
IsList(node) == node.t = "list"
IsStr(node)  == node.t = "str"

\* a path segment: a dict key or a list index
Key(k) == [key |-> k, idx |-> -1]
Idx(i) == [key |-> "", idx |-> i]

\* the children of a node with the path segment leading to each, in the order
\* node.items() / enumerate(node) delivers them
Children(node) ==
    IF IsDict(node)
    THEN [i \in 1..Len(node.items) |->
            [seg |-> Key(node.items[i].k), v |-> node.items[i].v]]
    ELSE IF IsList(node)
    THEN [i \in 1..Len(node.items) |-> [seg |-> Idx(i - 1), v |-> node.items[i]]]
    ELSE <<>>

\* a walk that yields a node after its children
RECURSIVE WalkPostOrder(_, _)
RECURSIVE PostChildren(_, _, _)
PostChildren(ch, path, i) ==
    IF i > Len(ch) THEN <<>>
    ELSE WalkPostOrder(ch[i].v, Append(path, ch[i].seg)) \o PostChildren(ch, path, i + 1)

WalkPostOrder(node, path) ==
    PostChildren(Children(node), path, 1) \o <<[path |-> path, node |-> node]>>

\* _walk_json(node, path): the (path, node) pairs in the order they are yielded
RECURSIVE _walk_json(_, _)
RECURSIVE WalkChildren(_, _, _)
WalkChildren(ch, path, i) ==
    IF i > Len(ch) THEN <<>>
    ELSE _walk_json(ch[i].v, Append(path, ch[i].seg)) \o WalkChildren(ch, path, i + 1)

_walk_json(node, path) ==
    <<[path |-> path, node |-> node]>> \o WalkChildren(Children(node), path, 1)

----------------------------------------------------------------------------
(* Python's str(), repr() and truth value of a JSON value *)

RECURSIVE PyRepr(_)
RECURSIVE ReprItems(_, _, _)
ReprItems(node, i, sep) ==
    IF i > Len(node.items) THEN ""
    ELSE (IF i > 1 THEN sep ELSE "") \o
         (IF IsDict(node)
          THEN "'" \o node.items[i].k \o "': " \o PyRepr(node.items[i].v)
          ELSE PyRepr(node.items[i])) \o
         ReprItems(node, i + 1, sep)

PyRepr(v) ==
    IF IsStr(v) THEN "'" \o v.s \o "'"
    ELSE IF IsDict(v) THEN "{" \o ReprItems(v, 1, ", ") \o "}"
    ELSE IF IsList(v) THEN "[" \o ReprItems(v, 1, ", ") \o "]"
    ELSE v.s

\* str(v)
PyStr(v) == IF IsStr(v) THEN v.s ELSE PyRepr(v)

\* bool(v)
Truthy(v) ==
    IF IsStr(v) THEN v.s # ""
    ELSE IF IsDict(v) \/ IsList(v) THEN v.items # <<>>
    ELSE IF v.t = "num" THEN v.s \notin {"0", "0.0"}
    ELSE IF v.t = "bool" THEN v.s = "True"
    ELSE FALSE

\* k in node
HasKey(node, k) == IsDict(node) /\ \E i \in 1..Len(node.items) : node.items[i].k = k

\* node.get(k), None when the key is missing
Get(node, k) ==
    IF HasKey(node, k)
    THEN node.items[CHOOSE i \in 1..Len(node.items) : node.items[i].k = k].v
    ELSE Null

----------------------------------------------------------------------------
(* The constants of the Heroic cached image resolver *)

_ID_KEYS ==
    {"appName", "app_name", "appname", "app-id", "appId", "app_id",
     "productId", "productID", "product_id", "id", "gameId", "game_id",
     "titleId", "title_id", "catalogItemId", "catalog_item_id", "slug", "productSlug"}

_EPIC_TYPE_PREFER ==
    <<"DieselGameBoxTall", "VaultBoxArtTall", "OfferImageTall", "DieselGameBox",
      "ProductPromoArt", "KeyArt", "ComingSoonBoxArt", "StoreTall">>

_URL_PREFER ==
    <<"cover", "boxart", "poster", "portrait", "front", "artwork", "keyart",
      "hero", "tall", "vertical">>

_URL_DEPRIO ==
    <<"screenshot", "logo", "icon", "background", "wallpaper", "banner",
      "landscape", "wide", "placeholder", "default">>

_COVER_KEYS ==
    {"art_cover", "cover", "coverUrl", "coverURL", "gridCover", "verticalCover",
     "portrait", "vertical", "imageUrl", "imageURL", "heroImage", "hero_image",
     "boxArt", "poster", "tile", "thumb", "grid", "banner", "logo_square"}

\* the extensions push looks for
ImageExts == <<".png", ".jpg", ".jpeg", ".webp", ".avif">>

\* the keys under which typed image objects are looked for, in order
ImageContainerKeys ==
    <<"images", "image", "media", "assets", "imageList", "imagesList", "keyImages">>

----------------------------------------------------------------------------
(* _JSON_URL_RX = re.compile(r"https?://[^\s\"'<>]+", re.I) *)

\* the characters the class [^\s"'<>] excludes
UrlStop == {" ", "\t", "\n", "\r", "\f", "\"", "'", "<", ">"}

\* the end of the longest run of characters outside UrlStop that starts at i
\* (i - 1 when there is none)
RECURSIVE RunEnd(_, _)
RunEnd(s, i) ==
    IF i > Len(s) \/ CharAt(s, i) \in UrlStop THEN i - 1 ELSE RunEnd(s, i + 1)

\* the index of the last character of the match of the pattern that starts at
\* position i of s, or 0 when the pattern does not match there
UrlMatchEnd(s, i) ==
    IF i + 3 > Len(s) \/ Lower(SubSeq(s, i, i + 3)) # "http" THEN 0
    ELSE LET b == IF i + 4 <= Len(s) /\ Lower(CharAt(s, i + 4)) = "s"
                  THEN i + 5 ELSE i + 4
         IN  IF b + 2 > Len(s) \/ SubSeq(s, b, b + 2) # "://" THEN 0
             ELSE IF RunEnd(s, b + 3) < b + 3 THEN 0
             ELSE RunEnd(s, b + 3)

\* _JSON_URL_RX.match(val): the pattern matches at the start of val
UrlMatch(val) == UrlMatchEnd(val, 1) > 0

\* _JSON_URL_RX.findall(v): the non-overlapping matches, left to right
RECURSIVE UrlFindAllFrom(_, _)
UrlFindAllFrom(s, i) ==
    IF i > Len(s) THEN <<>>
    ELSE IF UrlMatchEnd(s, i) > 0
    THEN <<SubSeq(s, i, UrlMatchEnd(s, i))>> \o UrlFindAllFrom(s, UrlMatchEnd(s, i) + 1)
    ELSE UrlFindAllFrom(s, i + 1)

UrlFindAll(s) == UrlFindAllFrom(s, 1)

----------------------------------------------------------------------------
(* Identifier Matcher *)

_node_has_exact_gid(node, g) ==
    /\ IsDict(node)
    /\ \E i \in 1..Len(node.items) :
            node.items[i].k \in _ID_KEYS /\ PyStr(node.items[i].v) = g

_node_mentions_gid(node, g) ==
    LET w == _walk_json(node, <<>>)
    IN  \E i \in 1..Len(w) :
            \/ IsStr(w[i].node) /\ Contains(w[i].node.s, g)
            \/ ~IsDict(w[i].node) /\ ~IsList(w[i].node) /\ PyStr(w[i].node) = g

----------------------------------------------------------------------------
(* URL Candidate Extractor *)

\* any(us.split("?", 1)[0].endswith(ext) for ext in (...))
HasImageExt(us) ==
    \E i \in 1..Len(ImageExts) : EndsWith(BeforeFirst(us, "?"), ImageExts[i])

\* push without its placeholder test
PushAll(u, epic_type_rank, cover_key_hit) ==
    LET us == Lower(u)
    IN  <<[url |-> u,
           epic_type_rank |-> epic_type_rank,
           cover_key_hit |-> cover_key_hit,
           has_ext |-> IF HasImageExt(us) THEN 1 ELSE 0,
           prefer |-> CountIn(_URL_PREFER, us),
           deprio |-> 0 - CountIn(_URL_DEPRIO, us)]>>

\* push(u, epic_type_rank, cover_key_hit): what it appends to out
push(u, epic_type_rank, cover_key_hit) ==
    LET us == Lower(u)
    IN  IF Contains(us, "placeholder") \/ Contains(us, "default") THEN <<>>
        ELSE <<[url |-> u,
                epic_type_rank |-> epic_type_rank,
                cover_key_hit |-> cover_key_hit,
                has_ext |-> IF HasImageExt(us) THEN 1 ELSE 0,
                prefer |-> CountIn(_URL_PREFER, us),
                deprio |-> 0 - CountIn(_URL_DEPRIO, us)]>>

\* cover fields pushed like any other URL
RECURSIVE CoverKeyUrlsNoHit(_, _)
CoverKeyUrlsNoHit(node, i) ==
    IF ~IsDict(node) \/ i > Len(node.items) THEN <<>>
    ELSE (IF /\ node.items[i].k \in _COVER_KEYS
             /\ IsStr(node.items[i].v)
             /\ UrlMatch(node.items[i].v.s)
          THEN push(node.items[i].v.s, 0, 0)
          ELSE <<>>) \o CoverKeyUrlsNoHit(node, i + 1)

\* 1) the dedicated cover fields of a dict, from its i-th entry on
RECURSIVE CoverKeyUrls(_, _)
CoverKeyUrls(node, i) ==
    IF ~IsDict(node) \/ i > Len(node.items) THEN <<>>
    ELSE (IF /\ node.items[i].k \in _COVER_KEYS
             /\ IsStr(node.items[i].v)
             /\ UrlMatch(node.items[i].v.s)
          THEN push(node.items[i].v.s, 0, 1)
          ELSE <<>>) \o CoverKeyUrls(node, i + 1)

\* obj.get("url") or obj.get("src") or obj.get("image") or obj.get("ImageUrl")
\* or obj.get("imageUrl")
ImgObjUrl(obj) ==
    IF Truthy(Get(obj, "url")) THEN Get(obj, "url")
    ELSE IF Truthy(Get(obj, "src")) THEN Get(obj, "src")
    ELSE IF Truthy(Get(obj, "image")) THEN Get(obj, "image")
    ELSE IF Truthy(Get(obj, "ImageUrl")) THEN Get(obj, "ImageUrl")
    ELSE Get(obj, "imageUrl")

\* a type rank that knows only the preferred-type list
EpicRankNoHints(t) ==
    IF \E i \in 1..Len(_EPIC_TYPE_PREFER) : _EPIC_TYPE_PREFER[i] = t THEN 2 ELSE 0

\* 2 if t in _EPIC_TYPE_PREFER else (1 if an orientation hint is in t else 0)
EpicRank(t) ==
    IF \E i \in 1..Len(_EPIC_TYPE_PREFER) : _EPIC_TYPE_PREFER[i] = t THEN 2
    ELSE IF Contains(t, "Tall") \/ Contains(t, "Vertical") \/ Contains(t, "BoxArt") THEN 1
    ELSE 0

grab_from_img_obj(obj) ==
    IF ~IsDict(obj) THEN <<>>
    ELSE LET url == ImgObjUrl(obj)
         IN  IF IsStr(url) /\ UrlMatch(url.s)
             THEN push(url.s,
                       EpicRank(IF HasKey(obj, "type") THEN PyStr(Get(obj, "type")) ELSE ""),
                       0)
             ELSE <<>>

\* the image objects of a list value (its items) or of a dict value (its values)
RECURSIVE GrabItems(_, _)
GrabItems(val, i) ==
    IF i > Len(val.items) THEN <<>>
    ELSE grab_from_img_obj(IF IsDict(val) THEN val.items[i].v ELSE val.items[i])
         \o GrabItems(val, i + 1)

\* 2) the typed image objects under the image-container keys, from the i-th key on
RECURSIVE ImageObjUrls(_, _)
ImageObjUrls(node, i) ==
    IF ~IsDict(node) \/ i > Len(ImageContainerKeys) THEN <<>>
    ELSE LET val == Get(node, ImageContainerKeys[i])
         IN  (IF IsList(val) \/ IsDict(val) THEN GrabItems(val, 1) ELSE <<>>)
             \o ImageObjUrls(node, i + 1)

\* push(m) for each m of a list of matches
RECURSIVE PushEach(_, _)
PushEach(ms, i) ==
    IF i > Len(ms) THEN <<>> ELSE push(ms[i], 0, 0) \o PushEach(ms, i + 1)

\* 3) any URL-looking string anywhere in the node, from the i-th walked pair on
RECURSIVE AnyUrls(_, _)
AnyUrls(w, i) ==
    IF i > Len(w) THEN <<>>
    ELSE (IF IsStr(w[i].node) THEN PushEach(UrlFindAll(w[i].node.s), 1) ELSE <<>>)
         \o AnyUrls(w, i + 1)

_extract_urls_from_node(node) ==
    CoverKeyUrls(node, 1) \o ImageObjUrls(node, 1) \o AnyUrls(_walk_json(node, <<>>), 1)

----------------------------------------------------------------------------
(* Ranking & Selection *)

\* a < b for two tuples of integers of the same length, lexicographically
RECURSIVE TupleLess(_, _)
TupleLess(a, b) ==
    IF a = <<>> THEN FALSE
    ELSE IF Head(a) # Head(b) THEN Head(a) < Head(b)
    ELSE TupleLess(Tail(a), Tail(b))

\* a sort key without the length of the URL
SortKeyNoLen(c) ==
    <<c.epic_type_rank, c.cover_key_hit, c.has_ext, c.prefer, c.deprio>>

\* key=lambda t: (t[1], t[2], t[3], t[4], t[5], -len(t[0]))
SortKey(c) ==
    <<c.epic_type_rank, c.cover_key_hit, c.has_ext, c.prefer, c.deprio, 0 - Len(c.url)>>

\* c placed into a list sorted descending, behind every element that does not
\* sort below it (list.sort is stable, also with reverse=True)
RECURSIVE InsertDesc(_, _)
InsertDesc(sorted, c) ==
    IF sorted = <<>> THEN <<c>>
    ELSE IF TupleLess(SortKey(Head(sorted)), SortKey(c)) THEN <<c>> \o sorted
    ELSE <<Head(sorted)>> \o InsertDesc(Tail(sorted), c)

\* ranked.sort(key=..., reverse=True)
RECURSIVE SortDesc(_, _)
SortDesc(ranked, i) ==
    IF i = 0 THEN <<>> ELSE InsertDesc(SortDesc(ranked, i - 1), ranked[i])

\* a deduplication that keeps each URL where it occurs last
RECURSIVE DedupeLast(_, _)
DedupeLast(ranked, i) ==
    IF i = 0 THEN <<>>
    ELSE LET d == DedupeLast(ranked, i - 1)
         IN  Append(SelectSeq(d, LAMBDA u : u # ranked[i].url), ranked[i].url)

\* the URLs of the ranked list, each kept where it occurs first
RECURSIVE Dedupe(_, _)
Dedupe(ranked, i) ==
    IF i = 0 THEN <<>>
    ELSE LET d == Dedupe(ranked, i - 1)
         IN  IF ranked[i].url \in Range(d) THEN d ELSE Append(d, ranked[i].url)

----------------------------------------------------------------------------
(* Corpus Scanner *)

\* what json.loads gives for a file that is no JSON document
ParseError == [t |-> "err", s |-> "", items |-> <<>>]

\* json_files: the files whose text contains the identifier, from the i-th on
RECURSIVE FilesMentioning(_, _, _)
FilesMentioning(files, g, i) ==
    IF i > Len(files) THEN <<>>
    ELSE (IF Contains(files[i].txt, g) THEN <<files[i]>> ELSE <<>>)
         \o FilesMentioning(files, g, i + 1)

\* exact_hits: the dict and list nodes with an identifier key equal to g
RECURSIVE ExactHits(_, _, _)
ExactHits(nodes, g, i) ==
    IF i > Len(nodes) THEN <<>>
    ELSE (IF (IsDict(nodes[i]) \/ IsList(nodes[i])) /\ _node_has_exact_gid(nodes[i], g)
          THEN <<nodes[i]>> ELSE <<>>)
         \o ExactHits(nodes, g, i + 1)

\* a fuzzy-hit pool that does not leave out the exact hits
RECURSIVE FuzzyHitsNoElse(_, _, _)
FuzzyHitsNoElse(nodes, g, i) ==
    IF i > Len(nodes) THEN <<>>
    ELSE (IF /\ IsDict(nodes[i]) \/ IsList(nodes[i])
             /\ _node_mentions_gid(nodes[i], g)
          THEN <<nodes[i]>> ELSE <<>>)
         \o FuzzyHitsNoElse(nodes, g, i + 1)

\* fuzzy_hits: the dict and list nodes that are no exact hit and mention g
RECURSIVE FuzzyHits(_, _, _)
FuzzyHits(nodes, g, i) ==
    IF i > Len(nodes) THEN <<>>
    ELSE (IF /\ IsDict(nodes[i]) \/ IsList(nodes[i])
             /\ ~_node_has_exact_gid(nodes[i], g)
             /\ _node_mentions_gid(nodes[i], g)
          THEN <<nodes[i]>> ELSE <<>>)
         \o FuzzyHits(nodes, g, i + 1)

\* a scan that a file failing to parse brings to an end
RECURSIVE WalkedNodesAbort(_, _)
WalkedNodesAbort(files, i) ==
    IF i > Len(files) \/ files[i].data = ParseError THEN <<>>
    ELSE (LET w == _walk_json(files[i].data, <<>>)
          IN  [j \in 1..Len(w) |-> w[j].node])
         \o WalkedNodesAbort(files, i + 1)

\* the nodes of the walks of the parsed files, file after file
RECURSIVE WalkedNodes(_, _)
WalkedNodes(files, i) ==
    IF i > Len(files) THEN <<>>
    ELSE (IF files[i].data = ParseError THEN <<>>
          ELSE LET w == _walk_json(files[i].data, <<>>)
               IN  [j \in 1..Len(w) |-> w[j].node])
         \o WalkedNodes(files, i + 1)

\* ranked.extend(_extract_urls_from_node(node)) for each node, in order
RECURSIVE ExtractEach(_, _)
ExtractEach(nodes, i) ==
    IF i > Len(nodes) THEN <<>>
    ELSE _extract_urls_from_node(nodes[i]) \o ExtractEach(nodes, i + 1)

\* nodes tagged with the pool they come from
Tagged(pool, nodes) == [i \in 1..Len(nodes) |-> [pool |-> pool, node |-> nodes[i]]]

\* a harvest that always takes both pools
HarvestMixed(exact_hits, fuzzy_hits) ==
    [extracted |-> Tagged("exact", exact_hits) \o Tagged("fuzzy", fuzzy_hits),
     ranked    |-> ExtractEach(exact_hits, 1) \o ExtractEach(fuzzy_hits, 1)]

\* the nodes handed to _extract_urls_from_node, in order, and the candidate
\* list before the sort: the exact-hit pool, then the fuzzy-hit pool only if
\* the exact-hit pool left the list empty
Harvest(exact_hits, fuzzy_hits) ==
    IF ExtractEach(exact_hits, 1) # <<>>
    THEN [extracted |-> Tagged("exact", exact_hits),
          ranked    |-> ExtractEach(exact_hits, 1)]
    ELSE [extracted |-> Tagged("exact", exact_hits) \o Tagged("fuzzy", fuzzy_hits),
          ranked    |-> ExtractEach(fuzzy_hits, 1)]

\* heroic_find_image_url_for_gid(hero_conf_root, gid), with the files of the
\* directory in the order rglob delivers them: the URL it returns and the
\* values of its local variables
heroic_find_image_url_for_gid(files, g) ==
    LET json_files == FilesMentioning(files, g, 1)
        nodes      == WalkedNodes(json_files, 1)
        exact_hits == ExactHits(nodes, g, 1)
        fuzzy_hits == FuzzyHits(nodes, g, 1)
        unsorted   == Harvest(exact_hits, fuzzy_hits).ranked
        ranked     == SortDesc(unsorted, Len(unsorted))
        ordered    == Dedupe(ranked, Len(ranked))
    IN  IF json_files = <<>>
        THEN [order |-> [i \in 1..Len(files) |-> files[i].name],
              exact_hits |-> <<>>, fuzzy_hits |-> <<>>, extracted |-> <<>>,
              ranked |-> <<>>, url |-> ""]
        ELSE [order |-> [i \in 1..Len(files) |-> files[i].name],
              exact_hits |-> exact_hits,
              fuzzy_hits |-> fuzzy_hits,
              extracted |-> Harvest(exact_hits, fuzzy_hits).extracted,
              ranked |-> ranked,
              url |-> IF ordered # <<>> THEN ordered[1] ELSE ""]

----------------------------------------------------------------------------
(* The corpus files the model draws from.  A file is its name, its text and *)
(* what json.loads makes of the text.                                       *)

\* the text of a JSON value, written without spaces
RECURSIVE JsonText(_)
RECURSIVE JsonItems(_, _)
JsonItems(node, i) ==
    IF i > Len(node.items) THEN ""
    ELSE (IF i > 1 THEN "," ELSE "") \o
         (IF IsDict(node)
          THEN "\"" \o node.items[i].k \o "\":" \o JsonText(node.items[i].v)
          ELSE JsonText(node.items[i])) \o
         JsonItems(node, i + 1)

JsonText(v) ==
    IF IsStr(v) THEN "\"" \o v.s \o "\""
    ELSE IF IsDict(v) THEN "{" \o JsonItems(v, 1) \o "}"
    ELSE IF IsList(v) THEN "[" \o JsonItems(v, 1) \o "]"
    ELSE IF v.t = "null" THEN "null"
    ELSE v.s

File(name, v) == [name |-> name, txt |-> JsonText(v), data |-> v]

FilePool ==
    { \* an exact-hit mapping with a cover-key URL
      File("a.json", Dict(<<KV("appName", Str("123")),
                            KV("art_cover", Str("https://x/cover.jpg"))>>)),
      \* the same, with another URL of the same rank and length, beside a URL
      \* in free text that scores higher on its words
      File("b.json", Dict(<<KV("appName", Str("123")),
                            KV("art_cover", Str("https://y/cover.jpg")),
                            KV("text", Str("see https://y/cover-poster.jpg"))>>)),
      \* typed image objects beside a mention of the identifier
      File("c.json", Dict(<<KV("note", Str("game 123")),
                            KV("images", List(<<
                                Dict(<<KV("type", Str("Logo")),
                                       KV("url", Str("https://x/b.png"))>>),
                                Dict(<<KV("type", Str("DieselGameBoxTall")),
                                       KV("url", Str("https://x/a.png"))>>)>>))>>)),
      \* an exact hit (a numeric id) that carries no URL, beside a cover
      File("d.json", Dict(<<KV("game", Dict(<<KV("id", Num("123"))>>)),
                            KV("poster", Str("https://z/poster.webp"))>>)),
      \* an exact-hit mapping whose only URLs are placeholders
      File("e.json", Dict(<<KV("app_name", Str("123")),
                            KV("cover", Str("https://x/Placeholder.png")),
                            KV("keyImages", Dict(<<
                                KV("k", Dict(<<KV("type", Str("OfferImageTall")),
                                               KV("src", Str("https://x/DEFAULT.jpg"))>>))>>)),
                            KV("text", Str("see https://x/default_tall.png"))>>)),
      \* an exact-hit mapping with two URLs in free text that differ in
      \* nothing but their length, the longer one first
      File("f.json", Dict(<<KV("slug", Str("123")),
                            KV("html", Str("https://q/ii.png?w=1 <img src='http://q/i.png'>"))>>)),
      \* an exact-hit mapping with a type that only hints at the orientation
      File("h.json", Dict(<<KV("id", Str("123")),
                            KV("media", List(<<
                                Dict(<<KV("type", Str("CustomTall")),
                                       KV("url", Str("https://q/logo.png"))>>)>>))>>)),
      \* a file cut off in the middle: its text mentions the identifier and holds
      \* a cover URL, and json.loads raises on it
      [name |-> "m.json", txt |-> "{\"appName\":\"123\",\"cover\":\"https://x/m.png\"",
       data |-> ParseError],
      \* a file that does not mention the identifier
      File("g.json", Dict(<<KV("appName", Str("999")),
                            KV("cover", Str("https://x/other.png"))>>)) }

\* the identifiers games are resolved for
Gids == {"123", "12"}

\* the corpus directories: up to MaxFiles files of the pool
Corpora == {c \in SUBSET FilePool : Cardinality(c) <= MaxFiles}

\* the orders in which a directory enumeration can deliver a set of files
Orders(c) ==
    {o \in [1..Cardinality(c) -> c] : \A i, j \in 1..Cardinality(c) : o[i] = o[j] => i = j}

----------------------------------------------------------------------------
(* Generated JSON documents: every value of at most MaxNodes nodes over     *)
(* GenLeaves and GenKeys                                                    *)

GenLeaves == {Str("123"), Num("7"), Null}
GenKeys   == {"id", "a"}

\* the sequences of n distinct keys
RECURSIVE KeySeqs(_)
KeySeqs(n) ==
    IF n = 0 THEN {<<>>}
    ELSE UNION {{Append(ks, k) : k \in GenKeys \ Range(ks)} : ks \in KeySeqs(n - 1)}

RECURSIVE GenVals(_)
RECURSIVE GenSeqs(_)
\* the sequences of values with n nodes in all
GenSeqs(n) ==
    IF n = 0 THEN {<<>>}
    ELSE UNION {{<<v>> \o rest : v \in GenVals(k), rest \in GenSeqs(n - k)} : k \in 1..n}

\* the values with exactly n nodes
GenVals(n) ==
    IF n = 1 THEN GenLeaves \cup {List(<<>>), Dict(<<>>)}
    ELSE {List(x) : x \in GenSeqs(n - 1)} \cup
         UNION {{Dict([i \in 1..Len(x) |-> KV(ks[i], x[i])]) : ks \in KeySeqs(Len(x))} :
                    x \in GenSeqs(n - 1)}

GenDocs == UNION {GenVals(n) : n \in 1..MaxNodes}

\* the start paths _walk_json is called with
StartPaths == {<<>>, <<Key("games")>>}

----------------------------------------------------------------------------
(* Image files, payloads and destination paths *)

\* the minimum size of a destination that is reused, and of a CDN payload
MinReuseSize   == 1000
MinPayloadSize == 1024
\* the canonical dimensions
CanonW == 600
CanonH == 900
\* the size taken for a regenerated 600x900 PNG and for a full cover payload
FullSize == 50000

\* a file, or a response body: fmt is what the image decoders make of the
\* bytes ("" when they are no image)
NoFile == [exists |-> FALSE, size |-> 0, fmt |-> "", w |-> 0, h |-> 0]
Image(size, fmt, w, h) == [exists |-> TRUE, size |-> size, fmt |-> fmt, w |-> w, h |-> h]

\* os.path.join(dir, name)
PathJoin(dir, name) == dir \o "/" \o name

ImagesDirSteam  == "images/steam"
ImagesDirHeroic == "images/heroic"

\* the Steam apps of the model
AppIds == {440}

\* out = os.path.join(images_dir, f"{appid}.png")
SteamOut(appid) == PathJoin(ImagesDirSteam, ToString(appid) \o ".png")

\* the characters of [A-Za-z0-9._-]
SafeChars ==
    Range(Upper) \cup Range(LowerOf) \cup
    {"0", "1", "2", "3", "4", "5", "6", "7", "8", "9", ".", "_", "-"}

\* re.sub(r"[^A-Za-z0-9._-]+", "_", s): every run of other characters becomes "_"
RECURSIVE SubUnsafe(_, _)
SubUnsafe(s, i) ==
    IF i > Len(s) THEN ""
    ELSE IF CharAt(s, i) \in SafeChars THEN CharAt(s, i) \o SubUnsafe(s, i + 1)
    ELSE IF i > 1 /\ CharAt(s, i - 1) \notin SafeChars THEN SubUnsafe(s, i + 1)
    ELSE "_" \o SubUnsafe(s, i + 1)

\* s.strip("_")
RECURSIVE StripUnderscores(_)
StripUnderscores(s) ==
    IF s = "" THEN ""
    ELSE IF CharAt(s, 1) = "_" THEN StripUnderscores(SubSeq(s, 2, Len(s)))
    ELSE IF CharAt(s, Len(s)) = "_" THEN StripUnderscores(SubSeq(s, 1, Len(s) - 1))
    ELSE s

\* re.sub(r"[^A-Za-z0-9._-]+", "_", f"heroic_{gid}").strip("_") or f"heroic_{gid}"
SafeName(g) ==
    IF StripUnderscores(SubUnsafe("heroic_" \o g, 1)) # ""
    THEN StripUnderscores(SubUnsafe("heroic_" \o g, 1))
    ELSE "heroic_" \o g

\* dst = os.path.join(images_dir, f"{safe}.png")
HeroicOut(g) == PathJoin(ImagesDirHeroic, SafeName(g) \o ".png")

\* images_dir_sideload = os.path.join(os.path.dirname(images_dir), "sideload")
ImagesDirSideload == "images/sideload"

\* re.sub(r"[^a-zA-Z0-9._-]+", "_", s).strip("_").lower() or "unnamed"
slugify(s) ==
    IF Lower(StripUnderscores(SubUnsafe(s, 1))) # ""
    THEN Lower(StripUnderscores(SubUnsafe(s, 1)))
    ELSE "unnamed"

\* title or sid, sid or title, ...: the first non-empty string
FirstOr(a, b) == IF a # "" THEN a ELSE b

\* dst = os.path.join(images_dir_sideload, f"{base}.png") with
\* base = slugify(sid or title or "sideload")
SideloadOut(sid, title) ==
    PathJoin(ImagesDirSideload, slugify(FirstOr(sid, FirstOr(title, "sideload"))) \o ".png")

\* a validation that does not look at the dimensions and the format
IsValidAnyImage(f) == f.exists /\ f.size > MinReuseSize /\ f.fmt # ""

\* the validation of an existing destination: it is a file above the minimum
\* size that opens as a 600x900 PNG (an open that raises counts as invalid)
IsValidCanonical(f) ==
    /\ f.exists
    /\ f.size > MinReuseSize
    /\ f.fmt # ""
    /\ f.w = CanonW /\ f.h = CanonH /\ f.fmt = "PNG"

----------------------------------------------------------------------------
(* stretch_png_600x900 *)

\* what the host and the bytes allow: whether each technique succeeds and
\* whether the external tools are installed.  Bytes that are no image defeat
\* every technique.
StretchEnvs(src) ==
    {e \in [pil_ok : BOOLEAN, have_convert : BOOLEAN, convert_ok : BOOLEAN,
            have_ffmpeg : BOOLEAN, ffmpeg_ok : BOOLEAN, copy_ok : BOOLEAN] :
        /\ src.fmt = "" => ~(e.pil_ok \/ e.convert_ok \/ e.ffmpeg_ok \/ e.copy_ok)
        \* a tool the host does not have converts nothing
        /\ e.convert_ok => e.have_convert
        /\ e.ffmpeg_ok => e.have_ffmpeg}

\* the techniques in the order of the code: the in-process library, the two
\* external tools, the copy that re-encodes
Techniques == <<"pil", "convert", "ffmpeg", "copy">>

\* the external tools the host has, in the order they are asked for
ToolsTried(e) ==
    (IF e.have_convert THEN <<"convert">> ELSE <<>>) \o
    (IF e.have_ffmpeg /\ ~(e.have_convert /\ e.convert_ok) THEN <<"ffmpeg">> ELSE <<>>)

\* a pipeline that runs the external tools without asking whether the host
\* has them
StretchNoToolCheck(src, old, e) ==
    IF e.pil_ok
    THEN [ok |-> TRUE, file |-> Image(FullSize, "PNG", CanonW, CanonH),
          tried |-> <<"pil">>, src |-> src, env |-> e]
    ELSE IF e.convert_ok
    THEN [ok |-> TRUE, file |-> Image(FullSize, "PNG", CanonW, CanonH),
          tried |-> <<"pil", "convert">>, src |-> src, env |-> e]
    ELSE IF e.ffmpeg_ok
    THEN [ok |-> TRUE, file |-> Image(FullSize, "PNG", CanonW, CanonH),
          tried |-> <<"pil", "convert", "ffmpeg">>, src |-> src, env |-> e]
    ELSE [ok |-> e.copy_ok,
          file |-> IF e.copy_ok THEN Image(FullSize, "PNG", src.w, src.h) ELSE old,
          tried |-> <<"pil", "convert", "ffmpeg", "copy">>, src |-> src, env |-> e]

\* stretch_png_600x900(src_path, dst_png): whether it succeeded, the file at
\* dst_png afterwards (old is the file there before) and the techniques it
\* ran, in order; src and env keep what it was called on
stretch_png_600x900(src, old, e) ==
    IF e.pil_ok
    THEN [ok |-> TRUE, file |-> Image(FullSize, "PNG", CanonW, CanonH),
          tried |-> <<"pil">>, src |-> src, env |-> e]
    ELSE IF e.have_convert /\ e.convert_ok
    THEN [ok |-> TRUE, file |-> Image(FullSize, "PNG", CanonW, CanonH),
          tried |-> <<"pil", "convert">>, src |-> src, env |-> e]
    ELSE IF e.have_ffmpeg /\ e.ffmpeg_ok
    THEN [ok |-> TRUE, file |-> Image(FullSize, "PNG", CanonW, CanonH),
          tried |-> <<"pil">> \o ToolsTried(e), src |-> src, env |-> e]
    ELSE IF e.copy_ok
    THEN [ok |-> TRUE, file |-> Image(FullSize, "PNG", src.w, src.h),
          tried |-> <<"pil">> \o ToolsTried(e) \o <<"copy">>, src |-> src, env |-> e]
    ELSE [ok |-> FALSE, file |-> old,
          tried |-> <<"pil">> \o ToolsTried(e) \o <<"copy">>, src |-> src, env |-> e]

----------------------------------------------------------------------------
(* Network responses *)

\* a request that raises (timeout, connection or HTTP error)
NetError == NoFile

\* the bodies an image URL serves: a full cover, a body below the minimum
\* payload size, bytes that are no image
Bodies ==
    {Image(FullSize, "JPEG", 1200, 1800), Image(MinPayloadSize - 1, "JPEG", CanonW, CanonH),
     Image(MinPayloadSize, "JPEG", CanonW, CanonH), Image(2000, "", 0, 0)}

Responses == {NetError} \cup Bodies

----------------------------------------------------------------------------
(* steam_cdn_to_png *)

CdnUrl(appid) ==
    "https://steamcdn-a.akamaihd.net/steam/apps/" \o ToString(appid) \o "/library_600x900.jpg"

\* steam_cdn_to_png(appid, images_dir): what it returns, the requests it issues
\* and the destination file afterwards; resp answers the CDN request and st is
\* the outcome of the conversion
steam_cdn_to_png(appid, old, resp, st) ==
    IF IsValidCanonical(old)
    THEN [ret |-> SteamOut(appid), reqs |-> <<>>, file |-> old, convs |-> <<>>]
    ELSE IF resp = NetError \/ resp.size = 0 \/ resp.size < MinPayloadSize
    THEN [ret |-> "", reqs |-> <<CdnUrl(appid)>>, file |-> old, convs |-> <<>>]
    ELSE [ret |-> IF st.ok THEN SteamOut(appid) ELSE "",
          reqs |-> <<CdnUrl(appid)>>,
          file |-> st.file,
          convs |-> <<st>>]

----------------------------------------------------------------------------
(* download_temp *)

\* re.match(r"^https?://", url_or_path, re.I)
IsHttp(u) ==
    \/ Len(u) >= 7 /\ Lower(SubSeq(u, 1, 7)) = "http://"
    \/ Len(u) >= 8 /\ Lower(SubSeq(u, 1, 8)) = "https://"

\* download_temp(url_or_path): the temporary file it returns (NoFile for "")
\* and the requests it issues; resp is what the URL serves or, for a local
\* path, the file there
download_temp(u, resp) ==
    IF u = "" THEN [tmp |-> NoFile, reqs |-> <<>>]
    ELSE IF Len(u) >= 7 /\ SubSeq(u, 1, 7) = "file://"
    THEN [tmp |-> IF Contains(SubSeq(u, 8, Len(u)), "/") /\ resp.exists THEN resp ELSE NoFile,
          reqs |-> <<>>]
    ELSE IF IsHttp(u) THEN [tmp |-> resp, reqs |-> <<u>>]
    ELSE IF CharAt(u, 1) = "/" /\ resp.exists THEN [tmp |-> resp, reqs |-> <<>>]
    ELSE [tmp |-> NoFile, reqs |-> <<>>]

----------------------------------------------------------------------------
(* SteamGridDB *)

SgdbApi == "https://www.steamgriddb.com/api/v2/"

\* an image of a listing
Item(url, score) == [url |-> url, score |-> score]

\* an image object that carries no score
Unscored(url) == [url |-> url]

\* x.get("score", 0)
ScoreOf(x) == IF "score" \in DOMAIN x THEN x.score ELSE 0

\* a listing response the operation read and the image URL it took from it
\* ("" when it took none)
Listing(api, taken) == [api |-> api, taken |-> taken]

\* the answers of an image-listing endpoint: the request raises, or the
\* document has a success flag and data that is one object (single) or a list
ApiError == [err |-> TRUE, success |-> FALSE, single |-> FALSE, items |-> <<>>]
ApiList(items) == [err |-> FALSE, success |-> TRUE, single |-> FALSE, items |-> items]
ApiSingle(item) == [err |-> FALSE, success |-> TRUE, single |-> TRUE, items |-> <<item>>]
ApiNoSuccess == [err |-> FALSE, success |-> FALSE, single |-> FALSE, items |-> <<>>]

\* a pick that takes the first entry of the listing as it came
TopAsListed(items, i) == items[1]

\* items.sort(key=lambda x: x.get("score", 0), reverse=True); items[0]
RECURSIVE TopByScore(_, _)
TopByScore(items, i) ==
    IF i = 1 THEN items[1]
    ELSE LET best == TopByScore(items, i - 1)
         IN  IF ScoreOf(items[i]) > ScoreOf(best) THEN items[i] ELSE best

\* steam_sgdb_to_png(appid, images_dir, api_key, enable): grids and heroes are
\* what the two listing requests answer, img what the image URL serves, st the
\* outcome of the conversion
steam_sgdb_to_png(appid, api_key, enable, old, grids, heroes, img, st) ==
    LET out   == SteamOut(appid)
        g     == SgdbApi \o "grids/steam/" \o ToString(appid)
        h     == SgdbApi \o "heroes/steam/" \o ToString(appid)
        \* best(grids) or best(heroes)
        second == grids.items = <<>>
        rq    == IF second THEN <<g, h>> ELSE <<g>>
        items == IF second THEN heroes ELSE grids
        url   == TopByScore(items.items, Len(items.items)).url
        d     == download_temp(url, img)
        taken == IF items.err \/ items.items = <<>> \/ items.single THEN "" ELSE url
        read  == IF grids.err THEN <<>>
                 ELSE IF ~second THEN <<Listing(grids, taken)>>
                 ELSE IF heroes.err THEN <<Listing(grids, "")>>
                 ELSE <<Listing(grids, ""), Listing(heroes, taken)>>
        none(r) == [ret |-> "", reqs |-> r, file |-> old, convs |-> <<>>,
                    listings |-> IF r = <<>> THEN <<>> ELSE read]
    IN  IF ~(api_key # "" /\ enable) THEN none(<<>>)
        ELSE IF IsValidCanonical(old)
        THEN [ret |-> out, reqs |-> <<>>, file |-> old, convs |-> <<>>, listings |-> <<>>]
        ELSE IF grids.err THEN none(<<g>>)
        ELSE IF second /\ heroes.err THEN none(rq)
        ELSE IF items.items = <<>> THEN none(rq)
        \* a single object has no sort: the call raises
        ELSE IF items.single THEN none(rq)
        ELSE IF url = "" THEN none(rq)
        ELSE IF ~d.tmp.exists THEN none(rq \o d.reqs)
        ELSE [ret |-> IF st.ok THEN out ELSE "", reqs |-> rq \o d.reqs, file |-> st.file,
              convs |-> <<st>>, listings |-> read]

\* s.strip()
RECURSIVE Strip(_)
Strip(s) ==
    IF s = "" THEN ""
    ELSE IF CharAt(s, 1) \in {" ", "\t", "\n", "\r", "\f"} THEN Strip(SubSeq(s, 2, Len(s)))
    ELSE IF CharAt(s, Len(s)) \in {" ", "\t", "\n", "\r", "\f"}
    THEN Strip(SubSeq(s, 1, Len(s) - 1))
    ELSE s

\* s.split()[0] for a stripped, non-empty s: the text before the first white space
RECURSIVE FirstWord(_, _)
FirstWord(s, i) ==
    IF i > Len(s) \/ CharAt(s, i) \in {" ", "\t", "\n", "\r", "\f"} THEN ""
    ELSE CharAt(s, i) \o FirstWord(s, i + 1)

\* urllib.parse.quote(s), for the characters the names of the model contain
RECURSIVE QuoteFrom(_, _)
QuoteFrom(s, i) ==
    IF i > Len(s) THEN ""
    ELSE (LET c == CharAt(s, i)
          IN  IF c \in SafeChars \cup {"~", "/"} THEN c
              ELSE IF c = ":" THEN "%3A"
              ELSE IF c = "'" THEN "%27"
              ELSE IF c = " " THEN "%20"
              ELSE "%25") \o QuoteFrom(s, i + 1)

Quote(s) == QuoteFrom(s, 1)

\* the search term and the autocomplete URL of a game name
SearchName(game_name) == Strip(Lower(game_name))

SearchTerm(search_name) ==
    IF Contains(search_name, "castlevania") THEN "castlevania"
    ELSE IF search_name # "" THEN FirstWord(search_name, 1)
    ELSE search_name

AutocompleteUrl(search_term) == SgdbApi \o "search/autocomplete/" \o Quote(search_term)

\* a result of the autocomplete endpoint
Game(id, name) == [id |-> id, name |-> name]

\* the loop over search_data from its i-th result on, game_id being what the
\* earlier results left (0: none)
RECURSIVE PickGame(_, _, _, _)
PickGame(search_name, search_data, i, game_id) ==
    IF i > Len(search_data) THEN game_id
    ELSE IF Contains(search_name, "castlevania") /\ Contains(search_name, "lords of shadow")
    THEN IF /\ Contains(Lower(search_data[i].name), "lords of shadow")
            /\ Contains(Lower(search_data[i].name), "ultimate")
         THEN search_data[i].id
         ELSE IF Contains(Lower(search_data[i].name), "lords of shadow") /\ game_id = 0
         THEN PickGame(search_name, search_data, i + 1, search_data[i].id)
         ELSE PickGame(search_name, search_data, i + 1, game_id)
    ELSE search_data[i].id

\* the answers of the autocomplete endpoint
AutoError == [err |-> TRUE, data |-> <<>>]
AutoData(d) == [err |-> FALSE, data |-> d]

AutoAnswers ==
    {AutoError, AutoData(<<>>),
     AutoData(<<Game(0, "Game")>>),
     AutoData(<<Game(11, "Castlevania"), Game(12, "Castlevania: Symphony of the Night")>>),
     AutoData(<<Game(11, "Castlevania"), Game(22, "Castlevania: Lords of Shadow"),
                Game(33, "Castlevania: Lords of Shadow - Ultimate Edition")>>)}

\* the endpoint and parameter combinations, in the order of the two loops
Combos == <<[endpoint |-> "grids",  params |-> "?dimensions=600x900"],
            [endpoint |-> "grids",  params |-> ""],
            [endpoint |-> "heroes", params |-> "?dimensions=600x900"],
            [endpoint |-> "heroes", params |-> ""]>>

ComboUrl(k, game_id) ==
    SgdbApi \o Combos[k].endpoint \o "/" \o ToString(game_id) \o Combos[k].params

\* the first combination of the endpoint after that of combination k
NextEndpoint(k) == IF k <= 2 THEN 3 ELSE 5

\* the loops over the combinations from combination k on; script[k] holds what
\* the k-th request answers (api), what the image URL serves (img) and what
\* the host allows the conversion (env)
RECURSIVE TryCombos(_, _, _, _, _)
TryCombos(k, game_id, out, old, script) ==
    IF k > Len(Combos)
    THEN [ret |-> "", reqs |-> <<>>, file |-> old, convs |-> <<>>, listings |-> <<>>]
    ELSE LET a    == script[k].api
             url  == IF a.items # <<>> THEN TopByScore(a.items, Len(a.items)).url ELSE ""
             d    == download_temp(url, script[k].img)
             st   == stretch_png_600x900(d.tmp, old, script[k].env)
             rest(n, file, cv) ==
                LET r == TryCombos(n, game_id, out, file, script)
                IN  [ret |-> r.ret, reqs |-> <<ComboUrl(k, game_id)>> \o
                        (IF ~a.err /\ a.success /\ url # "" THEN d.reqs ELSE <<>>) \o r.reqs,
                     file |-> r.file,
                     convs |-> cv \o r.convs,
                     listings |-> (IF a.err THEN <<>>
                                   ELSE <<Listing(a, IF a.success THEN url ELSE "")>>)
                                  \o r.listings]
         IN  IF a.err THEN rest(NextEndpoint(k), old, <<>>)
             ELSE IF ~a.success \/ url = "" THEN rest(k + 1, old, <<>>)
             ELSE IF ~d.tmp.exists THEN rest(k + 1, old, <<>>)
             ELSE IF st.ok /\ st.file.exists
             THEN [ret |-> out, reqs |-> <<ComboUrl(k, game_id)>> \o d.reqs, file |-> st.file,
                   convs |-> <<st>>, listings |-> <<Listing(a, url)>>]
             ELSE rest(k + 1, st.file, <<st>>)

\* a search that asks the service whatever the flag and the key
SgdbSearchAlways(game_name, filename, api_key, enable, old, auto, script) ==
    LET out     == PathJoin(ImagesDirHeroic, filename \o ".png")
        search_name == SearchName(game_name)
        search  == AutocompleteUrl(SearchTerm(search_name))
        game_id == PickGame(search_name, auto.data, 1, 0)
        r       == TryCombos(1, game_id, out, old, script)
    IN  IF auto.err \/ auto.data = <<>> \/ game_id = 0
        THEN [ret |-> "", reqs |-> <<search>>, file |-> old, convs |-> <<>>,
              sgdb |-> [search_data |-> auto.data, game_id |-> 0, listings |-> <<>>]]
        ELSE [ret |-> r.ret, reqs |-> <<search>> \o r.reqs, file |-> r.file,
              convs |-> r.convs,
              sgdb |-> [search_data |-> auto.data, game_id |-> game_id,
                        listings |-> r.listings]]

\* what a search that asked nothing leaves in its locals
NoSgdb == [search_data |-> <<>>, game_id |-> 0, listings |-> <<>>]

\* sgdb_search_by_name(game_name, images_dir, filename, api_key, enable)
sgdb_search_by_name(game_name, filename, api_key, enable, old, auto, script) ==
    LET out     == PathJoin(ImagesDirHeroic, filename \o ".png")
        search_name == SearchName(game_name)
        search  == AutocompleteUrl(SearchTerm(search_name))
        game_id == PickGame(search_name, auto.data, 1, 0)
        r       == TryCombos(1, game_id, out, old, script)
    IN  IF ~(api_key # "" /\ enable /\ game_name # "")
        THEN [ret |-> "", reqs |-> <<>>, file |-> old, convs |-> <<>>, sgdb |-> NoSgdb]
        ELSE IF auto.err \/ auto.data = <<>> \/ game_id = 0
        THEN [ret |-> "", reqs |-> <<search>>, file |-> old, convs |-> <<>>,
              sgdb |-> [search_data |-> auto.data, game_id |-> 0, listings |-> <<>>]]
        ELSE [ret |-> r.ret, reqs |-> <<search>> \o r.reqs, file |-> r.file,
              convs |-> r.convs,
              sgdb |-> [search_data |-> auto.data, game_id |-> game_id,
                        listings |-> r.listings]]

----------------------------------------------------------------------------
(* import_steam: the cover and the entry of one app *)

\* a cover lookup that asks SteamGridDB whatever the CDN returned
SteamCoverBoth(appid, cfg, cdn, grids, heroes, img, st) ==
    [ret   |-> IF cdn.ret # "" THEN cdn.ret
               ELSE steam_sgdb_to_png(appid, cfg.api_key, cfg.enable, cdn.file,
                                      grids, heroes, img, st).ret,
     reqs  |-> cdn.reqs \o steam_sgdb_to_png(appid, cfg.api_key, cfg.enable, cdn.file,
                                             grids, heroes, img, st).reqs,
     file  |-> steam_sgdb_to_png(appid, cfg.api_key, cfg.enable, cdn.file,
                                 grids, heroes, img, st).file,
     convs |-> cdn.convs \o steam_sgdb_to_png(appid, cfg.api_key, cfg.enable, cdn.file,
                                              grids, heroes, img, st).convs,
     cdn   |-> cdn.ret,
     asked |-> TRUE]

\* image_path = steam_cdn_to_png(...) or steam_sgdb_to_png(...): cdn is what
\* the first call returned; the second call runs only when that is empty
steam_cover(appid, cfg, cdn, grids, heroes, img, st) ==
    IF cdn.ret # ""
    THEN [ret |-> cdn.ret, reqs |-> cdn.reqs, file |-> cdn.file, convs |-> cdn.convs,
          cdn |-> cdn.ret, asked |-> FALSE]
    ELSE [ret   |-> steam_sgdb_to_png(appid, cfg.api_key, cfg.enable, cdn.file,
                                      grids, heroes, img, st).ret,
          reqs  |-> cdn.reqs \o steam_sgdb_to_png(appid, cfg.api_key, cfg.enable, cdn.file,
                                                  grids, heroes, img, st).reqs,
          file  |-> steam_sgdb_to_png(appid, cfg.api_key, cfg.enable, cdn.file,
                                      grids, heroes, img, st).file,
          convs |-> cdn.convs \o steam_sgdb_to_png(appid, cfg.api_key, cfg.enable, cdn.file,
                                                   grids, heroes, img, st).convs,
          cdn   |-> "",
          asked |-> TRUE]

\* the entry import_steam appends for an app of a native Steam
SteamEntry(appid, name, image_path) ==
    [name |-> name, cmd |-> "steam -applaunch " \o ToString(appid), image_path |-> image_path]

----------------------------------------------------------------------------
(* heroic_cover_png_from_json and add_heroic *)

\* heroic_cover_png_from_json(hero_conf_root, gid, images_dir): sc is what its
\* call of heroic_find_image_url_for_gid computes, img what the URL serves, st
\* the outcome of the conversion
heroic_cover_png_from_json(g, sc, old, img, st) ==
    IF sc.url = "" THEN [ret |-> "", reqs |-> <<>>, file |-> old, scan |-> sc, convs |-> <<>>]
    ELSE IF ~download_temp(sc.url, img).tmp.exists
    THEN [ret |-> "", reqs |-> download_temp(sc.url, img).reqs, file |-> old, scan |-> sc,
          convs |-> <<>>]
    ELSE [ret |-> IF st.ok /\ st.file.exists THEN HeroicOut(g) ELSE "",
          reqs |-> download_temp(sc.url, img).reqs,
          file |-> st.file,
          scan |-> sc,
          convs |-> <<st>>]

\* the stages of add_heroic when none was entered
NoTrail ==
    [skipped |-> FALSE, raised |-> FALSE, local_url |-> "", local_png |-> "",
     sgdb_called |-> FALSE, image_path |-> ""]

\* blacklist_name_regex.split("|") from position i on, cur being the part read
RECURSIVE SplitBar(_, _, _)
SplitBar(s, i, cur) ==
    IF i > Len(s) THEN <<cur>>
    ELSE IF CharAt(s, i) = "|" THEN <<cur>> \o SplitBar(s, i + 1, "")
    ELSE SplitBar(s, i + 1, cur \o CharAt(s, i))

\* some non-empty pattern of pats is found in the title, whatever the letter
\* case (the patterns of the model are plain words)
AnyPatternIn(pats, title) ==
    \E i \in 1..Len(pats) : pats[i] # "" /\ Contains(Lower(title), Lower(pats[i]))

\* the name blacklist of add_heroic
Blacklisted(title, blacklist_name_regex) ==
    blacklist_name_regex # "" /\ AnyPatternIn(SplitBar(blacklist_name_regex, 1, ""), title)

\* the plain words among the patterns of the default blacklist of import_steam
DefaultBlacklist == <<"Proton", "Soundtrack", "Demo", "Runtime", "Workshop", "Source">>

\* blacklisted(appid, name) of import_steam: the default patterns and those of
\* BLACKLIST_NAME_REGEX (no BLACKLIST_IDS, no blacklist file)
blacklisted(appid, name, blacklist_name_regex) ==
    \/ AnyPatternIn(DefaultBlacklist, name)
    \/ AnyPatternIn(SplitBar(blacklist_name_regex, 1, ""), name)

\* title or gid
TitleOr(title, g) == IF title # "" THEN title ELSE g

\* if png: image_path = png
PathAfter(png, image_path) == IF png # "" THEN png ELSE image_path

\* the launcher prefix of a native Heroic install; add_silent_param is False
\* there
heroic_prefix == "xdg-open "

\* the command of the entry: f"{heroic_prefix}heroic://launch?appName={gid}&runner={runner}"
LaunchCmd(g, src) ==
    heroic_prefix \o "heroic://launch?appName=" \o g \o "&runner="
        \o (IF src = "Sideload" THEN "sideload" ELSE Lower(src))

\* the end of add_heroic: the entry is appended.  looked and asked tell
\* whether the local lookup and the search ran, local and remote what they
\* returned
append_entry(title, g, src, image_path, looked, local, asked, remote) ==
    [ret   |-> "",
     reqs  |-> local.reqs \o remote.reqs,
     file  |-> remote.file,
     convs |-> local.convs \o remote.convs,
     sgdb  |-> remote.sgdb,
     asked |-> asked,
     looked |-> looked,
     scan  |-> local.scan,
     trail |-> [skipped |-> FALSE, raised |-> local.raised,
                local_url |-> IF looked THEN local.scan.url ELSE "",
                local_png |-> local.ret, sgdb_called |-> asked,
                image_path |-> PathAfter(remote.ret, image_path)],
     entry |-> [name |-> TitleOr(title, g) \o " (" \o src \o ")",
                cmd |-> LaunchCmd(g, src),
                image_path |-> PathAfter(remote.ret, image_path)]]

\* a fallback that looks only at what the local lookup made, not at the image
\* path the caller passed
SgdbFallbackNoPathGate(title, g, src, image_path, cfg, looked, local, auto, script) ==
    IF local.ret = "" /\ cfg.api_key # "" /\ cfg.enable
    THEN append_entry(title, g, src, PathAfter(local.ret, image_path), looked, local, TRUE,
                      sgdb_search_by_name(TitleOr(title, g), SafeName(g), cfg.api_key,
                                          cfg.enable, local.file, auto, script))
    ELSE append_entry(title, g, src, PathAfter(local.ret, image_path), looked, local, FALSE,
                      [ret |-> "", reqs |-> <<>>, file |-> local.file, convs |-> <<>>,
                       sgdb |-> NoSgdb])

\* the fallback of add_heroic to the search by name, after the local lookup
\* returned local
sgdb_fallback(title, g, src, image_path, cfg, looked, local, auto, script) ==
    IF PathAfter(local.ret, image_path) = "" /\ cfg.api_key # "" /\ cfg.enable
    THEN append_entry(title, g, src, PathAfter(local.ret, image_path), looked, local, TRUE,
                      sgdb_search_by_name(TitleOr(title, g), SafeName(g), cfg.api_key,
                                          cfg.enable, local.file, auto, script))
    ELSE append_entry(title, g, src, PathAfter(local.ret, image_path), looked, local, FALSE,
                      [ret |-> "", reqs |-> <<>>, file |-> local.file, convs |-> <<>>,
                       sgdb |-> NoSgdb])

\* what heroic_find_image_url_for_gid computes when no file mentions the game
NoScan == [order |-> <<>>, exact_hits |-> <<>>, fuzzy_hits |-> <<>>,
           extracted |-> <<>>, ranked |-> <<>>, url |-> ""]

\* heroic_find_image_url_for_gid raised instead of returning: the enumeration
\* of the directory is outside every try of the function
ScanRaised == [raised |-> "OSError"]

\* png = heroic_cover_png_from_json(...): the call returned r
returned_png(r) ==
    [ret |-> r.ret, reqs |-> r.reqs, file |-> r.file, scan |-> r.scan, convs |-> r.convs,
     raised |-> FALSE]

\* the local lookup of add_heroic: heroic_cover_png_from_json inside try/except;
\* an exception is logged and leaves no png
cover_lookup(g, sc, old, img, st) ==
    IF sc = ScanRaised
    THEN [ret |-> "", reqs |-> <<>>, file |-> old, scan |-> NoScan, convs |-> <<>>,
          raised |-> TRUE]
    ELSE returned_png(heroic_cover_png_from_json(g, sc, old, img, st))

\* the cover of a sideloaded app, made by the loop of import_heroic before it
\* calls add_heroic: img is what cover_url serves, st the outcome of the
\* conversion, copy_ok whether the direct copy after a failed conversion works
sideload_cover(cover_url, dst, old, img, st, copy_ok) ==
    IF cover_url = ""
    THEN [out_cover |-> "", reqs |-> <<>>, file |-> old, convs |-> <<>>]
    ELSE IF ~download_temp(cover_url, img).tmp.exists
    THEN [out_cover |-> "", reqs |-> download_temp(cover_url, img).reqs, file |-> old,
          convs |-> <<>>]
    ELSE IF st.ok
    THEN [out_cover |-> dst, reqs |-> download_temp(cover_url, img).reqs, file |-> st.file,
          convs |-> <<st>>]
    ELSE IF copy_ok
    THEN [out_cover |-> dst, reqs |-> download_temp(cover_url, img).reqs,
          file |-> download_temp(cover_url, img).tmp, convs |-> <<st>>]
    ELSE [out_cover |-> "", reqs |-> download_temp(cover_url, img).reqs, file |-> st.file,
          convs |-> <<st>>]

\* an add_heroic whose local lookup is not inside try/except: an exception of
\* the scan leaves the function before the entry is appended
AddHeroicNoTry(title, g, src, image_path, cfg, sc, old, img, st, auto, script) ==
    IF Blacklisted(title, cfg.blacklist)
       \/ (image_path = "" /\ src \in {"Epic", "GOG"} /\ sc = ScanRaised)
    THEN [ret |-> "", reqs |-> <<>>, file |-> old, looked |-> FALSE, scan |-> sc,
          convs |-> <<>>, sgdb |-> NoSgdb, asked |-> FALSE,
          trail |-> [NoTrail EXCEPT !.skipped = TRUE],
          entry |-> [name |-> "", cmd |-> "", image_path |-> ""]]
    ELSE IF image_path = "" /\ src \in {"Epic", "GOG"}
    THEN sgdb_fallback(title, g, src, image_path, cfg, TRUE,
                       cover_lookup(g, sc, old, img, st), auto, script)
    ELSE sgdb_fallback(title, g, src, image_path, cfg, FALSE,
                       [ret |-> "", reqs |-> <<>>, file |-> old, scan |-> sc, convs |-> <<>>,
                        raised |-> FALSE],
                       auto, script)

\* add_heroic(title, gid, install_path, src, image_path) under the settings
\* cfg: what it returns (nothing), the requests it issued, the destination
\* file afterwards, the stages it went through and the entry it appended (none
\* when the blacklist skipped the game)
add_heroic(title, g, src, image_path, cfg, sc, old, img, st, auto, script) ==
    IF Blacklisted(title, cfg.blacklist)
    THEN [ret |-> "", reqs |-> <<>>, file |-> old, looked |-> FALSE, scan |-> sc,
          convs |-> <<>>, sgdb |-> NoSgdb, asked |-> FALSE,
          trail |-> [NoTrail EXCEPT !.skipped = TRUE],
          entry |-> [name |-> "", cmd |-> "", image_path |-> ""]]
    ELSE IF image_path = "" /\ src \in {"Epic", "GOG"}
    THEN sgdb_fallback(title, g, src, image_path, cfg, TRUE,
                       cover_lookup(g, sc, old, img, st), auto, script)
    ELSE sgdb_fallback(title, g, src, image_path, cfg, FALSE,
                       [ret |-> "", reqs |-> <<>>, file |-> old, scan |-> sc, convs |-> <<>>,
                        raised |-> FALSE],
                       auto, script)

----------------------------------------------------------------------------
(* What the variables hold when nothing has run *)

\* the arguments of a call: the game's name or title, its identifier (appid or
\* gid), its source, the image path passed in, and the SteamGridDB settings
Arg(name, id, src, image_path, api_key, enable) ==
    [name |-> name, id |-> id, src |-> src, image_path |-> image_path,
     api_key |-> api_key, enable |-> enable]

NoArg == Arg("", "", "", "", "", FALSE)

\* no apps.json, no backup, no temporary file
Absent == [exists |-> FALSE, payload |-> <<>>]
NoFiles == [apps_json |-> Absent, bak |-> Absent, temps |-> {}]

\* no import is running
NoRun == [games |-> <<>>, at |-> 1, cfg |-> [api_key |-> "", enable |-> FALSE, blacklist |-> ""]]

\* the destination of the call whose arguments are a
DstOf(a) ==
    IF a.src = "Steam" THEN PathJoin(ImagesDirSteam, a.id \o ".png") ELSE HeroicOut(a.id)

\* the call f(a) returned r: what it returned, the requests it issued and the
\* file it left at its destination
Returned(f, a, r) ==
    /\ fn' = f
    /\ arg' = a
    /\ ret' = r.ret
    /\ reqs' = r.reqs
    /\ disk' = [disk EXCEPT ![DstOf(a)] = r.file]
    /\ convs' = r.convs

----------------------------------------------------------------------------
(* The tree walker on its own *)

InitWalk ==
    /\ doc \in GenDocs
    /\ walked = <<>>
    /\ corpus = {}
    /\ gid = ""
    /\ fn = "init"
    /\ arg = NoArg
    /\ scan = NoScan
    /\ found = {}
    /\ disk = <<>>
    /\ ret = ""
    /\ reqs = <<>>
    /\ trail = NoTrail
    /\ heroic_apps = <<>>
    /\ convs = <<>>
    /\ sgdb = NoSgdb
    /\ apps = <<>>
    /\ fs = NoFiles
    /\ run = NoRun

Walk(start) ==
    /\ fn' = "_walk_json"
    /\ walked' = _walk_json(doc, start)
    /\ UNCHANGED <<apps, fs, run, doc, corpus, gid, arg, scan, found, disk, ret, reqs, trail, heroic_apps,
                   convs, sgdb>>

NextWalk == \E start \in StartPaths : Walk(start)

SpecWalk == InitWalk /\ [][NextWalk]_vars

----------------------------------------------------------------------------
(* The local resolution: corpus scan, ranking and selection *)

InitFind ==
    /\ doc = Null
    /\ walked = <<>>
    /\ corpus \in Corpora
    /\ gid \in Gids
    /\ fn = "init"
    /\ arg = NoArg
    /\ scan = NoScan
    /\ found = {}
    /\ disk = <<>>
    /\ ret = ""
    /\ reqs = <<>>
    /\ trail = NoTrail
    /\ heroic_apps = <<>>
    /\ convs = <<>>
    /\ sgdb = NoSgdb
    /\ apps = <<>>
    /\ fs = NoFiles
    /\ run = NoRun

\* one call of heroic_find_image_url_for_gid; the enumeration delivers the
\* files in the order o
Find(o) ==
    /\ fn' = "heroic_find_image_url_for_gid"
    /\ scan' = heroic_find_image_url_for_gid(o, gid)
    /\ ret' = scan'.url
    /\ found' = found \cup {scan'.url}
    /\ UNCHANGED <<apps, fs, run, doc, walked, corpus, gid, arg, disk, reqs, trail, heroic_apps, convs, sgdb>>

NextFind == \E o \in Orders(corpus) : Find(o)

SpecFind == InitFind /\ [][NextFind]_vars

----------------------------------------------------------------------------
(* Inputs of the image operations *)

\* a game import_heroic discovered: its title, its identifier, its source and,
\* for a sideloaded app, the cover its library entry names
Discovered(title, g, src, cover_url) ==
    [title |-> title, gid |-> g, src |-> src, cover_url |-> cover_url]

\* the games of the installed lists, in the order of the loops of
\* import_heroic: Epic, then GOG, then the sideloaded apps
GamePool ==
    <<Discovered("Game", "123", "Epic", ""),
      Discovered("Game", "123", "GOG", ""),
      Discovered("Side", "Side", "Sideload", "https://x/side.png"),
      Discovered("Game Demo", "side", "Sideload", "https://x/side.png"),
      Discovered("Game", "123", "Sideload", "")>>

\* the apps the manifests of the Steam libraries name, in the order the
\* libraries are read
SteamPool == <<[appid |-> 440, name |-> "Game"], [appid |-> 570, name |-> "Other"],
               [appid |-> 730, name |-> "Game Demo"]>>

\* the destination paths of the model
DstPaths ==
    {SteamOut(a) : a \in AppIds} \cup {HeroicOut(g) : g \in Gids}
    \cup {SteamOut(a.appid) : a \in Range(SteamPool)}
    \cup {HeroicOut(g.gid) : g \in Range(GamePool)}
    \cup {SideloadOut(g.gid, g.title) : g \in {x \in Range(GamePool) : x.src = "Sideload"}}

\* a valid canonical destination
Canonical == Image(FullSize, "PNG", CanonW, CanonH)

\* what a destination can hold before a run: nothing, a valid canonical image,
\* one of exactly the minimum size, one just above it, a JPEG, a PNG of other
\* dimensions, bytes that are no image
DiskKinds ==
    {NoFile, Canonical,
     Image(MinReuseSize, "PNG", CanonW, CanonH), Image(MinReuseSize + 1, "PNG", CanonW, CanonH),
     Image(FullSize, "JPEG", CanonW, CanonH), Image(FullSize, "PNG", 300, 450),
     Image(FullSize, "", 0, 0)}

\* the game whose cover is resolved
ImportGids == {"123"}

\* SGDB_API_KEY and SGDB_ENABLE
ApiKeys == {"", "KEY"}

\* the game names handed to the search
Names == {"", "Game", "Castlevania: Lords of Shadow"}

\* hosts where every technique works, where only the copy fallback does, and
\* where nothing does
EnvAll  == [pil_ok |-> TRUE, have_convert |-> TRUE, convert_ok |-> TRUE,
            have_ffmpeg |-> TRUE, ffmpeg_ok |-> TRUE, copy_ok |-> TRUE]
EnvCopy == [pil_ok |-> FALSE, have_convert |-> FALSE, convert_ok |-> FALSE,
            have_ffmpeg |-> FALSE, ffmpeg_ok |-> FALSE, copy_ok |-> TRUE]
EnvNone == [pil_ok |-> FALSE, have_convert |-> TRUE, convert_ok |-> FALSE,
            have_ffmpeg |-> TRUE, ffmpeg_ok |-> FALSE, copy_ok |-> FALSE]

\* a host without convert where ffmpeg works
EnvFfmpeg == [pil_ok |-> FALSE, have_convert |-> FALSE, convert_ok |-> FALSE,
              have_ffmpeg |-> TRUE, ffmpeg_ok |-> TRUE, copy_ok |-> FALSE]

\* the hosts the cover operations run on
Hosts == {EnvAll, EnvCopy, EnvNone, EnvFfmpeg}

\* the outcomes of stretch_png_600x900 for a source on these hosts
StretchOutcomes(src, old) ==
    {stretch_png_600x900(src, old, e) : e \in Hosts \cap StretchEnvs(src)}

Cover == Image(FullSize, "JPEG", 1200, 1800)
Top   == ApiList(<<Item("https://cdn.sgdb/low.png", 1), Item("https://cdn.sgdb/top.png", 5)>>)
\* a listing whose entry without a score stands behind one of negative score
Plain == ApiList(<<Item("https://cdn.sgdb/neg.png", 0 - 1), Unscored("https://cdn.sgdb/plain.png")>>)

\* one combination of a search: the listing raises, has no success flag, leads
\* to a converted image, to a copied one, to a failing download, to bytes no
\* technique converts
StepErr    == [api |-> ApiError, img |-> NetError, env |-> EnvNone]
StepNone   == [api |-> ApiNoSuccess, img |-> NetError, env |-> EnvNone]
StepGood   == [api |-> Top, img |-> Cover, env |-> EnvAll]
StepPlain  == [api |-> Plain, img |-> Cover, env |-> EnvAll]
StepCopy   == [api |-> ApiSingle(Item("https://cdn.sgdb/one.png", 0)), img |-> Cover,
               env |-> EnvCopy]
StepNoBody == [api |-> Top, img |-> NetError, env |-> EnvAll]
StepNoConv == [api |-> Top, img |-> Image(2000, "", 0, 0), env |-> EnvNone]


\* what the four combinations answer, in their order
Scripts ==
    {<<StepGood, StepGood, StepGood, StepGood>>,
     <<StepErr, StepGood, StepCopy, StepGood>>,
     <<StepNone, StepNoBody, StepNoConv, StepCopy>>,
     <<StepNoConv, StepGood, StepErr, StepErr>>,
     <<StepErr, StepErr, StepErr, StepErr>>,
     <<StepNone, StepNoBody, StepNoConv, StepNone>>,
     <<StepPlain, StepGood, StepGood, StepGood>>}

\* what the autocomplete request and the four combinations answer
Searches ==
    {[auto |-> a, script |-> sc] : a \in {AutoError}, sc \in {<<StepErr, StepErr, StepErr, StepErr>>}}
    \cup {[auto |-> a, script |-> <<StepGood, StepGood, StepGood, StepGood>>] :
            a \in AutoAnswers \ {AutoError}}
    \cup {[auto |-> AutoData(<<Game(22, "Castlevania: Lords of Shadow")>>), script |-> sc] :
            sc \in Scripts}

Small   == Image(MinPayloadSize - 1, "JPEG", CanonW, CanonH)
NoImage == Image(2000, "", 0, 0)

\* what the two listings of steam_sgdb_to_png answer, what the image URL
\* serves and what the host allows the conversion
Lookups ==
    {[grids |-> ApiError, heroes |-> Top, img |-> Cover, env |-> EnvAll],
     [grids |-> Top, heroes |-> ApiError, img |-> Cover, env |-> EnvAll],
     [grids |-> Top, heroes |-> ApiError, img |-> Cover, env |-> EnvCopy],
     [grids |-> Top, heroes |-> ApiError, img |-> Small, env |-> EnvCopy],
     [grids |-> Top, heroes |-> ApiError, img |-> NetError, env |-> EnvAll],
     [grids |-> Top, heroes |-> ApiError, img |-> NoImage, env |-> EnvNone],
     [grids |-> ApiList(<<>>), heroes |-> Top, img |-> Cover, env |-> EnvAll],
     [grids |-> Plain, heroes |-> ApiError, img |-> Cover, env |-> EnvAll],
     [grids |-> ApiList(<<>>), heroes |-> ApiError, img |-> Cover, env |-> EnvAll],
     [grids |-> ApiNoSuccess, heroes |-> ApiList(<<>>), img |-> Cover, env |-> EnvAll],
     [grids |-> ApiSingle(Item("https://cdn.sgdb/one.png", 0)), heroes |-> Top, img |-> Cover,
      env |-> EnvAll]}

----------------------------------------------------------------------------
(* stretch_png_600x900 on its own, on every host *)

InitStretch ==
    /\ doc = Null
    /\ walked = <<>>
    /\ corpus = {}
    /\ gid \in ImportGids
    /\ fn = "init"
    /\ arg = NoArg
    /\ scan = NoScan
    /\ found = {}
    /\ disk \in {[p \in DstPaths |-> IF p \in {SteamOut(a) : a \in AppIds} THEN k ELSE NoFile] :
                    k \in DiskKinds}
    /\ ret = ""
    /\ reqs = <<>>
    /\ trail = NoTrail
    /\ heroic_apps = <<>>
    /\ convs = <<>>
    /\ sgdb = NoSgdb
    /\ apps = <<>>
    /\ fs = NoFiles
    /\ run = NoRun

\* one call of stretch_png_600x900 on the temporary file src, writing to the
\* Steam destination of appid
Stretch(appid, src, e) ==
    /\ fn' = "stretch_png_600x900"
    /\ arg' = Arg("", ToString(appid), "Steam", "", "", FALSE)
    /\ convs' = <<stretch_png_600x900(src, disk[SteamOut(appid)], e)>>
    /\ disk' = [disk EXCEPT ![SteamOut(appid)] = convs'[1].file]
    /\ ret' = IF convs'[1].ok THEN "True" ELSE "False"
    /\ UNCHANGED <<apps, fs, run, doc, walked, corpus, gid, scan, found, reqs, trail, heroic_apps, sgdb>>

NextStretch ==
    \E appid \in AppIds, src \in Bodies : \E e \in StretchEnvs(src) : Stretch(appid, src, e)

SpecStretch == InitStretch /\ [][NextStretch]_vars

----------------------------------------------------------------------------
(* The operations of common/images.py *)

InitImages ==
    /\ doc = Null
    /\ walked = <<>>
    /\ corpus = {}
    /\ gid \in ImportGids
    /\ fn = "init"
    /\ arg = NoArg
    /\ scan = NoScan
    /\ found = {}
    /\ disk \in {[p \in DstPaths |-> IF p \in {SteamOut(a) : a \in AppIds} THEN k
                                     ELSE IF p = HeroicOut(gid) THEN h
                                     ELSE NoFile] :
                    k \in DiskKinds, h \in {NoFile, Canonical}}
    /\ ret = ""
    /\ reqs = <<>>
    /\ trail = NoTrail
    /\ heroic_apps = <<>>
    /\ convs = <<>>
    /\ sgdb = NoSgdb
    /\ apps = <<>>
    /\ fs = NoFiles
    /\ run = NoRun

\* one call of steam_cdn_to_png
SteamCdn(appid, resp, st) ==
    /\ Returned("steam_cdn_to_png", Arg("", ToString(appid), "Steam", "", "", FALSE),
                steam_cdn_to_png(appid, disk[SteamOut(appid)], resp, st))
    /\ UNCHANGED <<apps, fs, run, doc, walked, corpus, gid, scan, found, trail, heroic_apps, sgdb>>

\* one call of steam_sgdb_to_png
\* steam_sgdb_to_png, called with a, returned r
SteamSgdbReturned(a, r) ==
    /\ Returned("steam_sgdb_to_png", a, r)
    /\ sgdb' = [NoSgdb EXCEPT !.listings = r.listings]
    /\ UNCHANGED <<apps, fs, run, doc, walked, corpus, gid, scan, found, trail, heroic_apps>>

\* one call of steam_sgdb_to_png
SteamSgdb(appid, api_key, enable, l) ==
    SteamSgdbReturned(Arg("", ToString(appid), "Steam", "", api_key, enable),
                      steam_sgdb_to_png(appid, api_key, enable, disk[SteamOut(appid)],
                                        l.grids, l.heroes, l.img,
                                        stretch_png_600x900(l.img, disk[SteamOut(appid)], l.env)))

\* sgdb_search_by_name, called with a, returned r
SgdbSearchReturned(a, r) ==
    /\ Returned("sgdb_search_by_name", a, r)
    /\ sgdb' = r.sgdb
    /\ UNCHANGED <<apps, fs, run, doc, walked, corpus, gid, scan, found, trail, heroic_apps>>

\* one call of sgdb_search_by_name, storing under the game's safe file name
SgdbSearch(game_name, api_key, enable, auto, script) ==
    SgdbSearchReturned(Arg(game_name, gid, "", "", api_key, enable),
                       sgdb_search_by_name(game_name, SafeName(gid), api_key, enable,
                                           disk[HeroicOut(gid)], auto, script))

NextImages ==
    \/ \E appid \in AppIds, resp \in Responses :
        \E st \in StretchOutcomes(resp, disk[SteamOut(appid)]) : SteamCdn(appid, resp, st)
    \/ \E appid \in AppIds, api_key \in ApiKeys, enable \in BOOLEAN, l \in Lookups :
        SteamSgdb(appid, api_key, enable, l)
    \/ \E game_name \in Names, api_key \in ApiKeys, enable \in BOOLEAN, s \in Searches :
        SgdbSearch(game_name, api_key, enable, s.auto, s.script)

SpecImages == InitImages /\ [][NextImages]_vars

----------------------------------------------------------------------------
(* The Heroic importer: heroic_cover_png_from_json and add_heroic *)

\* the Heroic configuration directories of the import: empty, one file that
\* carries a cover for the game, one that carries only placeholders
ImportCorpora ==
    {c \in Corpora : Cardinality(c) <= 1 /\ \A f \in c : f.name \in {"a.json", "e.json"}}

\* heroic_find_image_url_for_gid over the directories of the import, for each
\* order the enumeration can deliver the files in
ImportScans ==
    {[gid |-> g, files |-> o, scan |-> heroic_find_image_url_for_gid(o, g)] :
        g \in ImportGids, o \in UNION {Orders(c) : c \in ImportCorpora}}

\* what heroic_find_image_url_for_gid computes for the files o and the game g
ScanOf(o, g) == (CHOOSE x \in ImportScans : x.gid = g /\ x.files = o).scan

Titles == {"Game", "Game Demo"}

\* the source of a game and the image path its loop passes
Sources ==
    {[src |-> "Epic", image_path |-> ""], [src |-> "Sideload", image_path |-> ""],
     [src |-> "Sideload", image_path |-> "images/sideload/side.png"]}

\* SGDB_API_KEY, SGDB_ENABLE and the name blacklist
Settings == [api_key : ApiKeys, enable : BOOLEAN, blacklist : {"", "demo|beta"}]

\* what the network answers and the host allows during one add_heroic: the
\* cover URL's body and its conversion, then the search
Worlds ==
    {[scan_raises |-> FALSE, img |-> Cover, env |-> EnvAll, auto |-> AutoError,
      script |-> <<StepErr, StepErr, StepErr, StepErr>>],
     [scan_raises |-> FALSE, img |-> Cover, env |-> EnvCopy, auto |-> AutoError,
      script |-> <<StepErr, StepErr, StepErr, StepErr>>],
     [scan_raises |-> FALSE, img |-> NetError, env |-> EnvAll, auto |-> AutoData(<<Game(7, "Game")>>),
      script |-> <<StepErr, StepGood, StepGood, StepGood>>],
     [scan_raises |-> FALSE, img |-> NoImage, env |-> EnvNone, auto |-> AutoData(<<Game(7, "Game")>>),
      script |-> <<StepGood, StepGood, StepGood, StepGood>>],
     [scan_raises |-> FALSE, img |-> NetError, env |-> EnvAll, auto |-> AutoData(<<Game(7, "Game")>>),
      script |-> <<StepNone, StepNoBody, StepNoConv, StepNone>>],
     [scan_raises |-> FALSE, img |-> NetError, env |-> EnvAll, auto |-> AutoData(<<>>),
      script |-> <<StepGood, StepGood, StepGood, StepGood>>],
     [scan_raises |-> TRUE, img |-> Cover, env |-> EnvAll, auto |-> AutoError,
      script |-> <<StepErr, StepErr, StepErr, StepErr>>],
     [scan_raises |-> TRUE, img |-> Cover, env |-> EnvAll, auto |-> AutoData(<<Game(7, "Game")>>),
      script |-> <<StepGood, StepGood, StepGood, StepGood>>]}

Init ==
    /\ doc = Null
    /\ walked = <<>>
    /\ corpus \in ImportCorpora
    /\ gid \in ImportGids
    /\ fn = "init"
    /\ arg = NoArg
    /\ scan = NoScan
    /\ found = {}
    /\ disk \in {[p \in DstPaths |-> IF p = HeroicOut(gid) THEN h ELSE NoFile] :
                    h \in {NoFile, Canonical}}
    /\ ret = ""
    /\ reqs = <<>>
    /\ trail = NoTrail
    /\ heroic_apps = <<>>
    /\ convs = <<>>
    /\ sgdb = NoSgdb
    /\ apps = <<>>
    /\ fs = NoFiles
    /\ run = NoRun

\* heroic_cover_png_from_json returned r
HeroicCoverReturned(r) ==
    /\ Returned("heroic_cover_png_from_json", Arg("", gid, "", "", "", FALSE), r)
    /\ scan' = r.scan
    /\ found' = found \cup {r.scan.url}
    /\ UNCHANGED <<apps, fs, run, doc, walked, corpus, gid, trail, heroic_apps, sgdb>>

\* one call of heroic_cover_png_from_json; the enumeration delivers the files
\* in the order o
HeroicCover(o, img, st) ==
    HeroicCoverReturned(
        heroic_cover_png_from_json(gid, ScanOf(o, gid), disk[HeroicOut(gid)], img, st))

\* add_heroic, called with a, returned r
AddHeroicReturned(a, r) ==
    /\ Returned("add_heroic", a, r)
    /\ scan' = IF r.looked THEN r.scan ELSE scan
    /\ found' = IF r.looked THEN found \cup {r.scan.url} ELSE found
    /\ trail' = r.trail
    /\ sgdb' = IF r.asked THEN r.sgdb ELSE sgdb
    /\ heroic_apps' = IF r.trail.skipped THEN heroic_apps ELSE Append(heroic_apps, r.entry)
    /\ UNCHANGED <<apps, fs, run, doc, walked, corpus, gid>>

\* one call of add_heroic for the game under the settings cfg; the enumeration
\* delivers the files in the order o
AddHeroic(title, s, cfg, o, w) ==
    /\ Len(heroic_apps) < MaxApps
    /\ AddHeroicReturned(
            Arg(title, gid, s.src, s.image_path, cfg.api_key, cfg.enable),
            add_heroic(title, gid, s.src, s.image_path, cfg,
                       IF w.scan_raises THEN ScanRaised ELSE ScanOf(o, gid),
                       disk[HeroicOut(gid)], w.img,
                       stretch_png_600x900(w.img, disk[HeroicOut(gid)], w.env),
                       w.auto, w.script))

Next ==
    \/ \E o \in Orders(corpus), img \in Responses :
        \E st \in StretchOutcomes(img, disk[HeroicOut(gid)]) : HeroicCover(o, img, st)
    \/ \E title \in Titles, s \in Sources, cfg \in Settings, o \in Orders(corpus), w \in Worlds :
        AddHeroic(title, s, cfg, o, w)

Spec == Init /\ [][Next]_vars

----------------------------------------------------------------------------
(* import_heroic: the loops over the Epic, GOG and sideloaded games *)

\* games one import discovers
MaxGames == 2

\* the games of the pool at the positions I, in the order of the pool
RECURSIVE PickGames(_, _)
PickGames(I, i) ==
    IF i > Len(GamePool) THEN <<>>
    ELSE (IF i \in I THEN <<GamePool[i]>> ELSE <<>>) \o PickGames(I, i + 1)

\* what the installed lists can hold
Libraries ==
    {PickGames(I, 1) : I \in {J \in SUBSET (1..Len(GamePool)) :
                                  Cardinality(J) >= 1 /\ Cardinality(J) <= MaxGames}}

InitImport ==
    /\ doc = Null
    /\ walked = <<>>
    /\ corpus \in ImportCorpora
    /\ run \in [games : Libraries, at : {1}, cfg : Settings]
    /\ gid = run.games[1].gid
    /\ fn = "init"
    /\ arg = NoArg
    /\ scan = NoScan
    /\ found = {}
    /\ disk = [p \in DstPaths |-> NoFile]
    /\ ret = ""
    /\ reqs = <<>>
    /\ trail = NoTrail
    /\ heroic_apps = <<>>
    /\ convs = <<>>
    /\ sgdb = NoSgdb
    /\ apps = <<>>
    /\ fs = NoFiles

\* the sideload loop made no cover
NoCover(old) == [out_cover |-> "", reqs |-> <<>>, file |-> old, convs |-> <<>>]

\* one round of a loop of import_heroic: the game g was handled, side is what
\* the loop made before it called add_heroic, r what add_heroic returned
Imported(g, side, r) ==
    /\ fn' = "add_heroic"
    /\ arg' = Arg(FirstOr(g.title, g.gid), g.gid, g.src, side.out_cover,
                  run.cfg.api_key, run.cfg.enable)
    /\ gid' = g.gid
    /\ ret' = r.ret
    /\ reqs' = side.reqs \o r.reqs
    /\ convs' = side.convs \o r.convs
    /\ disk' = IF g.src = "Sideload"
               THEN [disk EXCEPT ![SideloadOut(g.gid, g.title)] = side.file,
                                 ![HeroicOut(g.gid)] = r.file]
               ELSE [disk EXCEPT ![HeroicOut(g.gid)] = r.file]
    /\ scan' = IF r.looked THEN r.scan ELSE scan
    /\ found' = IF r.looked THEN found \cup {r.scan.url} ELSE found
    /\ trail' = r.trail
    /\ sgdb' = IF r.asked THEN r.sgdb ELSE sgdb
    /\ heroic_apps' = IF r.trail.skipped THEN heroic_apps ELSE Append(heroic_apps, r.entry)
    /\ run' = [run EXCEPT !.at = @ + 1]
    /\ UNCHANGED <<doc, walked, corpus, apps, fs>>

\* one round of the Epic or the GOG loop: add_heroic(title, gid, install_path, src)
ImportLauncherGame(g, o, w) ==
    Imported(g, NoCover(disk[HeroicOut(g.gid)]),
             add_heroic(g.title, g.gid, g.src, "", run.cfg,
                        IF w.scan_raises THEN ScanRaised ELSE ScanOf(o, g.gid),
                        disk[HeroicOut(g.gid)], w.img,
                        stretch_png_600x900(w.img, disk[HeroicOut(g.gid)], w.env),
                        w.auto, w.script))

\* one round of the Epic loop
ImportEpic(o, w) ==
    /\ run.at <= Len(run.games)
    /\ run.games[run.at].src = "Epic"
    /\ ImportLauncherGame(run.games[run.at], o, w)

\* one round of the GOG loop
ImportGog(o, w) ==
    /\ run.at <= Len(run.games)
    /\ run.games[run.at].src = "GOG"
    /\ ImportLauncherGame(run.games[run.at], o, w)

\* add_heroic(title or sid, sid, workd, "Sideload", image_path=out_cover)
AddSideload(g, side, w) ==
    Imported(g, side,
             add_heroic(FirstOr(g.title, g.gid), g.gid, "Sideload", side.out_cover, run.cfg,
                        NoScan, disk[HeroicOut(g.gid)], w.img,
                        stretch_png_600x900(w.img, disk[HeroicOut(g.gid)], w.env),
                        w.auto, w.script))

\* one round of the sideload loop
ImportSideload(w, copy_ok) ==
    /\ run.at <= Len(run.games)
    /\ run.games[run.at].src = "Sideload"
    /\ AddSideload(run.games[run.at],
                   sideload_cover(run.games[run.at].cover_url,
                                  SideloadOut(run.games[run.at].gid, run.games[run.at].title),
                                  disk[SideloadOut(run.games[run.at].gid, run.games[run.at].title)],
                                  w.img,
                                  stretch_png_600x900(
                                      w.img,
                                      disk[SideloadOut(run.games[run.at].gid,
                                                       run.games[run.at].title)],
                                      w.env),
                                  copy_ok),
                   w)

NextImport ==
    \/ \E o \in Orders(corpus), w \in Worlds : ImportEpic(o, w)
    \/ \E o \in Orders(corpus), w \in Worlds : ImportGog(o, w)
    \/ \E w \in Worlds, copy_ok \in BOOLEAN : ImportSideload(w, copy_ok)

SpecImport == InitImport /\ [][NextImport]_vars

----------------------------------------------------------------------------
(* The Steam importer: the loop of import_steam over the manifests *)

\* the apps of the pool at the positions I, in the order of the pool
RECURSIVE PickApps(_, _)
PickApps(I, i) ==
    IF i > Len(SteamPool) THEN <<>>
    ELSE (IF i \in I THEN <<SteamPool[i]>> ELSE <<>>) \o PickApps(I, i + 1)

\* what the libraries can hold
SteamLibraries ==
    {PickApps(I, 1) : I \in {J \in SUBSET (1..Len(SteamPool)) :
                                 Cardinality(J) >= 1 /\ Cardinality(J) <= MaxGames}}

InitSteam ==
    /\ doc = Null
    /\ walked = <<>>
    /\ corpus = {}
    /\ run \in [games : SteamLibraries, at : {1}, cfg : Settings]
    /\ gid = ""
    /\ fn = "init"
    /\ arg = NoArg
    /\ scan = NoScan
    /\ found = {}
    /\ disk \in {[p \in DstPaths |-> IF p = SteamOut(SteamPool[1].appid) THEN k ELSE NoFile] :
                    k \in {NoFile, Canonical}}
    /\ ret = ""
    /\ reqs = <<>>
    /\ trail = NoTrail
    /\ heroic_apps = <<>>
    /\ convs = <<>>
    /\ sgdb = NoSgdb
    /\ apps = <<>>
    /\ fs = NoFiles

\* one round of the loop of import_steam over an app that is not blacklisted:
\* r is what the lookup of its cover returned
SteamImported(a, r) ==
    /\ Returned("import_steam", Arg(a.name, ToString(a.appid), "Steam", "", run.cfg.api_key,
                                    run.cfg.enable), r)
    /\ trail' = [NoTrail EXCEPT !.local_png = r.cdn, !.sgdb_called = r.asked,
                                !.image_path = r.ret]
    /\ apps' = Append(apps, SteamEntry(a.appid, a.name, r.ret))
    /\ run' = [run EXCEPT !.at = @ + 1]
    /\ UNCHANGED <<doc, walked, corpus, gid, scan, found, heroic_apps, sgdb, fs>>

\* one round of the loop over a blacklisted app: continue
SteamSkipped(a) ==
    /\ fn' = "import_steam"
    /\ arg' = Arg(a.name, ToString(a.appid), "Steam", "", run.cfg.api_key, run.cfg.enable)
    /\ ret' = ""
    /\ reqs' = <<>>
    /\ convs' = <<>>
    /\ trail' = [NoTrail EXCEPT !.skipped = TRUE]
    /\ run' = [run EXCEPT !.at = @ + 1]
    /\ UNCHANGED <<doc, walked, corpus, gid, scan, found, heroic_apps, sgdb, fs, apps, disk>>

\* one round of the loop of import_steam: resp answers the CDN, st converts
\* its body, l answers SteamGridDB
ImportSteamApp(resp, st, l) ==
    /\ run.at <= Len(run.games)
    /\ LET a   == run.games[run.at]
           old == disk[SteamOut(a.appid)]
           cdn == steam_cdn_to_png(a.appid, old, resp, st)
       IN  IF blacklisted(a.appid, a.name, run.cfg.blacklist)
           THEN SteamSkipped(a)
           ELSE SteamImported(a, steam_cover(a.appid, run.cfg, cdn, l.grids, l.heroes, l.img,
                                             stretch_png_600x900(l.img, cdn.file, l.env)))

NextSteam ==
    /\ run.at <= Len(run.games)
    /\ \E resp \in {Cover, NetError, Small}, l \in Lookups :
         \E st \in StretchOutcomes(resp, disk[SteamOut(run.games[run.at].appid)]) :
             ImportSteamApp(resp, st, l)

SpecSteam == InitSteam /\ [][NextSteam]_vars

----------------------------------------------------------------------------
(* main: backup, the importers in turn, the fresh write *)

ABS_IMAGES_DIR == "/var/home/steam/.config/sunshine/images"

\* an entry of import_launchers
Launcher(name, cmd, poster) ==
    [name |-> name, cmd |-> cmd, image_path |-> PathJoin(ABS_IMAGES_DIR, poster)]

\* import_launchers: enabled is the toggle IMPORT_LAUNCHERS, steam_cmd and
\* heroic_cmd are what _steam_cmd and _heroic_cmd found ("" when not installed)
import_launchers(enabled, steam_cmd, heroic_cmd) ==
    IF ~enabled THEN <<>>
    ELSE <<Launcher("#1 Desktop", "", "Desktop.png")>>
         \o (IF steam_cmd # "" THEN <<Launcher("Zz Steam", steam_cmd, "Steam.png")>> ELSE <<>>)
         \o (IF heroic_cmd # "" THEN <<Launcher("Zz Heroic", heroic_cmd, "Heroic.png")>>
             ELSE <<>>)
         \o <<Launcher("Zz Reboot", "", "Reboot.png")>>

\* enabled_importers
EnabledImporters(IMPORT_STEAM, IMPORT_HEROIC) ==
    (IF IMPORT_STEAM THEN <<"steam">> ELSE <<>>) \o (IF IMPORT_HEROIC THEN <<"heroic">> ELSE <<>>)

\* a payload whose keys stand in the order apps, env, meta
PayloadAppsFirst(collected, enabled_importers) ==
    <<[key |-> "apps", value |-> collected],
      [key |-> "env", value |-> [PATH |-> "$(PATH):$(HOME)/.local/bin"]],
      [key |-> "meta", value |-> [generated_by |-> "bazzite-sunshine-manager",
                                  enabled_importers |-> enabled_importers]]>>

\* payload = {"env": env_block, "apps": apps, "meta": {...}}: the keys in the
\* order json.dump writes them (ENV_PATH_APPEND is not set)
Payload(collected, enabled_importers) ==
    <<[key |-> "env", value |-> [PATH |-> "$(PATH):$(HOME)/.local/bin"]],
      [key |-> "apps", value |-> collected],
      [key |-> "meta", value |-> [generated_by |-> "bazzite-sunshine-manager",
                                  enabled_importers |-> enabled_importers]]>>

\* a file holding obj
Holding(obj) == [exists |-> TRUE, payload |-> obj]

\* write_json(path, obj): the dump goes to path.tmp, which then replaces path
write_json(obj) == Holding(obj)

\* the apps.json a previous run left
Previous == Holding(Payload(<<[name |-> "Old", cmd |-> "steam -applaunch 10", image_path |-> ""]>>,
                            <<"steam">>))

\* the runs of main: the file a previous run left, the two toggles, what the
\* Steam libraries and the Heroic lists hold
MainRuns ==
    [prev : {Absent, Previous}, IMPORT_STEAM : BOOLEAN, IMPORT_HEROIC : BOOLEAN,
     steam : {<<SteamPool[1]>>, <<SteamPool[2], SteamPool[3]>>},
     heroic : {<<GamePool[1]>>, <<GamePool[2], GamePool[3]>>},
     cfg : {[api_key |-> "KEY", enable |-> TRUE, blacklist |-> ""]},
     stage : {"backup"}, backup : {"none"}, games : {<<>>}, at : {1}]

InitMain ==
    /\ doc = Null
    /\ walked = <<>>
    /\ corpus \in ImportCorpora
    /\ run \in MainRuns
    /\ gid = ""
    /\ fn = "init"
    /\ arg = NoArg
    /\ scan = NoScan
    /\ found = {}
    /\ disk = [p \in DstPaths |-> NoFile]
    /\ ret = ""
    /\ reqs = <<>>
    /\ trail = NoTrail
    /\ heroic_apps = <<>>
    /\ convs = <<>>
    /\ sgdb = NoSgdb
    /\ apps = <<>>
    /\ fs = [NoFiles EXCEPT !.apps_json = run.prev]

\* if os.path.exists(apps_json): try: shutil.copy2(apps_json, apps_json.bak)
\* except Exception: log a warning.  copy_ok tells whether the copy succeeded.
\* Then the toggles are read and import_steam starts, if enabled
MainBackup(copy_ok) ==
    /\ run.stage = "backup"
    /\ fs' = IF fs.apps_json.exists /\ copy_ok THEN [fs EXCEPT !.bak = fs.apps_json] ELSE fs
    /\ run' = [run EXCEPT !.stage = "steam",
                          !.backup = IF ~fs.apps_json.exists THEN "none"
                                     ELSE IF copy_ok THEN "saved" ELSE "failed",
                          !.games = IF run.IMPORT_STEAM THEN run.steam ELSE <<>>,
                          !.at = 1]
    /\ fn' = "main"
    /\ UNCHANGED <<doc, walked, corpus, gid, arg, scan, found, disk, ret, reqs, trail,
                   heroic_apps, convs, sgdb, apps>>

\* apps += import_steam(...): one round of its loop
MainSteam ==
    /\ run.stage = "steam"
    /\ NextSteam

\* import_steam returned; import_heroic starts, if enabled
MainSteamDone ==
    /\ run.stage = "steam"
    /\ run.at > Len(run.games)
    /\ run' = [run EXCEPT !.stage = "heroic",
                          !.games = IF run.IMPORT_HEROIC THEN run.heroic ELSE <<>>,
                          !.at = 1]
    /\ fn' = "main"
    /\ UNCHANGED <<doc, walked, corpus, gid, arg, scan, found, disk, ret, reqs, trail,
                   heroic_apps, convs, sgdb, apps, fs>>

\* one round of a loop of import_heroic
MainHeroic ==
    /\ run.stage = "heroic"
    /\ NextImport

\* apps += import_heroic(...): import_heroic returned its list
MainHeroicDone ==
    /\ run.stage = "heroic"
    /\ run.at > Len(run.games)
    /\ apps' = apps \o heroic_apps
    /\ run' = [run EXCEPT !.stage = "launchers"]
    /\ fn' = "main"
    /\ UNCHANGED <<doc, walked, corpus, gid, arg, scan, found, disk, ret, reqs, trail,
                   heroic_apps, convs, sgdb, fs>>

\* apps += import_launchers(...); write_json(apps_json, payload)
MainWrite(enabled, steam_cmd, heroic_cmd) ==
    /\ run.stage = "launchers"
    /\ apps' = apps \o import_launchers(enabled, steam_cmd, heroic_cmd)
    /\ fs' = [fs EXCEPT !.apps_json =
                  write_json(Payload(apps \o import_launchers(enabled, steam_cmd, heroic_cmd),
                                     EnabledImporters(run.IMPORT_STEAM, run.IMPORT_HEROIC)))]
    /\ run' = [run EXCEPT !.stage = "written"]
    /\ fn' = "main"
    /\ ret' = "0"
    /\ UNCHANGED <<doc, walked, corpus, gid, arg, scan, found, disk, reqs, trail,
                   heroic_apps, convs, sgdb>>

NextMain ==
    \/ \E copy_ok \in BOOLEAN : MainBackup(copy_ok)
    \/ MainSteam
    \/ MainSteamDone
    \/ MainHeroic
    \/ MainHeroicDone
    \/ \E enabled \in BOOLEAN, steam_cmd \in {"", "steam"}, heroic_cmd \in {"", "heroic"} :
          MainWrite(enabled, steam_cmd, heroic_cmd)

SpecMain == InitMain /\ [][NextMain]_vars

----------------------------------------------------------------------------
(* One add_heroic, call by call: every request, every technique of a        *)
(* conversion and every temporary file is a step of its own; run holds the  *)
(* locals and the position                                                  *)

\* the temporary file of the n-th download_temp and of the copy fallback that
\* converts it
SgTemp(n)  == "sg_" \o ToString(n)
ImgTemp(n) == "img_" \o ToString(n)

\* whether stretch_png_600x900 runs its t-th technique on a host: the external
\* tools only when have_cmd finds them
TechniqueRuns(t, e) ==
    \/ t \in {1, 4}
    \/ t = 2 /\ e.have_convert
    \/ t = 3 /\ e.have_ffmpeg

\* whether the t-th technique succeeds on a host
TechniqueOk(t, e) ==
    \/ t = 1 /\ e.pil_ok
    \/ t = 2 /\ e.convert_ok
    \/ t = 3 /\ e.ffmpeg_ok
    \/ t = 4 /\ e.copy_ok

\* a loop that asks for the same combination again
SameCombo(k) == k

\* for params in [...]: the combination after combination k
NextCombo(k) == k + 1

\* where sgdb_search_by_name stands when its loops reach combination k
LoopAt(k) == IF k > Len(Combos) THEN "append" ELSE "listing"

\* the calls of add_heroic the model resolves: an Epic game, a sideload that
\* found its cover, one that found none
Calls ==
    {[title |-> t, src |-> c.src, image_path |-> c.image_path] :
        t \in {"Game"},
        c \in {[src |-> "Epic", image_path |-> ""],
               [src |-> "Sideload", image_path |-> "images/sideload/side.png"],
               [src |-> "Sideload", image_path |-> ""]}}

\* the settings of the resolutions: the key set or not, the search enabled or
\* not, and a blacklist
ResolveSettings ==
    {cfg \in Settings : cfg.blacklist # "" => (cfg.api_key # "" /\ cfg.enable)}

\* what an image URL serves and the host the body is converted on: a failing
\* request, a cover on each host that converts it, bytes no technique converts
Fetches ==
    {[resp |-> NetError, env |-> EnvNone], [resp |-> Cover, env |-> EnvAll],
     [resp |-> Cover, env |-> EnvFfmpeg], [resp |-> Cover, env |-> EnvCopy],
     [resp |-> NoImage, env |-> EnvNone]}

\* the locals of add_heroic and of the calls below it at the start of call c
Locals(c, cfg) ==
    [stage |-> "add_heroic", title |-> c.title, src |-> c.src, image_path |-> c.image_path,
     cfg |-> cfg, caller |-> "", url |-> "", tmp |-> "", body |-> NoFile, env |-> EnvNone,
     t |-> 0, ok |-> FALSE, k |-> 0, game_id |-> 0, n |-> 0, log |-> <<>>]

InitResolve ==
    /\ doc = Null
    /\ walked = <<>>
    /\ corpus \in ImportCorpora
    /\ gid = "123"
    /\ run \in {Locals(c, cfg) : c \in Calls, cfg \in ResolveSettings}
    /\ fn = "init"
    /\ arg = NoArg
    /\ scan = NoScan
    /\ found = {}
    /\ disk = [p \in DstPaths |-> NoFile]
    /\ ret = ""
    /\ reqs = <<>>
    /\ trail = NoTrail
    /\ heroic_apps = <<>>
    /\ convs = <<>>
    /\ sgdb = NoSgdb
    /\ apps = <<>>
    /\ fs = NoFiles

\* what no step of the resolution touches
ResolveFrame == UNCHANGED <<doc, walked, corpus, gid, arg, scan, found, trail, convs, sgdb, apps>>

\* add_heroic up to its first call: the blacklist returns, an Epic or GOG
\* game without image path goes to the local lookup, the others to the gate
\* of the search
ResolveStart ==
    /\ run.stage = "add_heroic"
    /\ run' = [run EXCEPT !.stage =
                  IF Blacklisted(run.title, run.cfg.blacklist) THEN "done"
                  ELSE IF run.image_path = "" /\ run.src \in {"Epic", "GOG"} THEN "scan"
                  ELSE "gate"]
    /\ fn' = "add_heroic"
    /\ UNCHANGED <<disk, ret, reqs, heroic_apps, fs>>
    /\ ResolveFrame

\* heroic_cover_png_from_json: url = heroic_find_image_url_for_gid(...); the
\* scan raises (add_heroic catches it), finds nothing, or hands a URL to
\* download_temp
ResolveScan(o, raises) ==
    /\ run.stage = "scan"
    /\ LET url == IF raises THEN "" ELSE ScanOf(o, gid).url
       IN  run' = [run EXCEPT !.stage = IF url = "" THEN "gate" ELSE "download",
                              !.caller = "local",
                              !.url = url,
                              !.log = Append(@, "scan")]
    /\ fn' = "heroic_find_image_url_for_gid"
    /\ UNCHANGED <<disk, ret, reqs, heroic_apps, fs>>
    /\ ResolveFrame

\* download_temp(url) of an http(s) URL: mkstemp makes the temporary file,
\* then the request is issued; when it raises, download_temp returns "" and
\* the caller goes on (the local lookup returns "", the search continues with
\* the next combination); otherwise the body is in the file and the caller
\* calls stretch_png_600x900, on a host env
ResolveDownload(resp, env) ==
    /\ run.stage = "download"
    /\ IsHttp(run.url)
    /\ fs' = [fs EXCEPT !.temps = @ \cup {SgTemp(run.n + 1)}]
    /\ reqs' = Append(reqs, run.url)
    /\ run' = IF download_temp(run.url, resp).tmp.exists
              THEN [run EXCEPT !.stage = "technique", !.n = @ + 1, !.tmp = SgTemp(run.n + 1),
                               !.body = resp, !.env = env, !.t = 1, !.ok = FALSE]
              ELSE [run EXCEPT !.stage = IF run.caller = "local" THEN "gate"
                                         ELSE LoopAt(NextCombo(run.k)),
                               !.n = @ + 1, !.tmp = "",
                               !.k = IF run.caller = "local" THEN @ ELSE NextCombo(@)]
    /\ fn' = "download_temp"
    /\ UNCHANGED <<disk, ret, heroic_apps>>
    /\ ResolveFrame

\* stretch_png_600x900 at its t-th technique: a tool the host lacks is passed
\* over; a technique that succeeds writes the destination and returns True; the
\* copy fallback makes a temporary file of its own, which it removes after it
\* saved the image and leaves when the copy or the open raises
ResolveTechnique ==
    /\ run.stage = "technique"
    /\ LET runs == TechniqueRuns(run.t, run.env)
           done == runs /\ TechniqueOk(run.t, run.env) /\ run.body.fmt # ""
       IN  /\ run' = [run EXCEPT !.stage = IF done \/ run.t = Len(Techniques) THEN "remove"
                                           ELSE "technique",
                                 !.t = IF done \/ run.t = Len(Techniques) THEN @ ELSE @ + 1,
                                 !.ok = done,
                                 !.log = IF runs
                                         THEN Append(@, run.tmp \o ":" \o Techniques[run.t])
                                         ELSE @]
           /\ disk' = IF done
                      THEN [disk EXCEPT ![HeroicOut(gid)] =
                               stretch_png_600x900(run.body, disk[HeroicOut(gid)], run.env).file]
                      ELSE disk
           /\ fs' = IF run.t = Len(Techniques) /\ ~done
                    THEN [fs EXCEPT !.temps = @ \cup {ImgTemp(run.n)}]
                    ELSE fs
    /\ fn' = "stretch_png_600x900"
    /\ UNCHANGED <<ret, reqs, heroic_apps>>
    /\ ResolveFrame

\* os.remove(tmp) after stretch_png_600x900 returned, and what the caller
\* makes of ok: the local lookup returns dst or "", the search returns out or
\* goes on with the next combination
ResolveRemove ==
    /\ run.stage = "remove"
    /\ fs' = [fs EXCEPT !.temps = @ \ {run.tmp}]
    /\ LET png == IF run.ok /\ disk[HeroicOut(gid)].exists THEN HeroicOut(gid) ELSE ""
       IN  run' = [run EXCEPT !.stage = IF run.caller = "local" THEN "gate"
                                        ELSE IF png # "" THEN "append"
                                        ELSE LoopAt(NextCombo(run.k)),
                              !.k = IF run.caller = "local" \/ png # "" THEN @ ELSE NextCombo(@),
                              !.tmp = "",
                              !.image_path = PathAfter(png, @)]
    /\ fn' = IF run.caller = "local" THEN "heroic_cover_png_from_json" ELSE "sgdb_search_by_name"
    /\ UNCHANGED <<disk, ret, reqs, heroic_apps>>
    /\ ResolveFrame

\* if not image_path: ... if api_key and enable: sgdb_search_by_name(...)
ResolveGate ==
    /\ run.stage = "gate"
    /\ run' = [run EXCEPT !.stage = IF run.image_path = "" /\ run.cfg.api_key # ""
                                       /\ run.cfg.enable /\ TitleOr(run.title, gid) # ""
                                    THEN "auto" ELSE "append",
                          !.caller = "sgdb"]
    /\ fn' = "add_heroic"
    /\ UNCHANGED <<disk, ret, reqs, heroic_apps, fs>>
    /\ ResolveFrame

\* the autocomplete request of sgdb_search_by_name and the choice of game_id
ResolveAuto(auto) ==
    /\ run.stage = "auto"
    /\ reqs' = Append(reqs, AutocompleteUrl(SearchTerm(SearchName(TitleOr(run.title, gid)))))
    /\ LET game_id == IF auto.err THEN 0
                      ELSE PickGame(SearchName(TitleOr(run.title, gid)), auto.data, 1, 0)
       IN  run' = [run EXCEPT !.stage = IF game_id = 0 THEN "append" ELSE "listing",
                              !.game_id = game_id,
                              !.k = 1,
                              !.log = Append(@, "autocomplete")]
    /\ fn' = "sgdb_search_by_name"
    /\ UNCHANGED <<disk, ret, heroic_apps, fs>>
    /\ ResolveFrame

\* the listing request of combination k: when it raises, the loop goes on with
\* the next endpoint; without success flag or URL, with the next combination;
\* otherwise the URL of the best image goes to download_temp
ResolveListing(a) ==
    /\ run.stage = "listing"
    /\ reqs' = Append(reqs, ComboUrl(run.k, run.game_id))
    /\ LET url == IF a.items # <<>> THEN TopByScore(a.items, Len(a.items)).url ELSE ""
           n   == IF a.err THEN NextEndpoint(run.k) ELSE NextCombo(run.k)
       IN  run' = IF ~a.err /\ a.success /\ url # ""
                  THEN [run EXCEPT !.stage = "download", !.url = url,
                                   !.log = Append(@, "combo " \o ToString(run.k))]
                  ELSE [run EXCEPT !.stage = LoopAt(n), !.k = n,
                                   !.log = Append(@, "combo " \o ToString(run.k))]
    /\ fn' = "sgdb_search_by_name"
    /\ UNCHANGED <<disk, ret, heroic_apps, fs>>
    /\ ResolveFrame

\* heroic_apps.append({...}) and the return of add_heroic
ResolveAppend ==
    /\ run.stage = "append"
    /\ heroic_apps' = Append(heroic_apps,
                             [name |-> TitleOr(run.title, gid) \o " (" \o run.src \o ")",
                              cmd |-> LaunchCmd(gid, run.src),
                              image_path |-> run.image_path])
    /\ run' = [run EXCEPT !.stage = "done"]
    /\ ret' = run.image_path
    /\ fn' = "add_heroic"
    /\ UNCHANGED <<disk, reqs, fs>>
    /\ ResolveFrame

NextResolve ==
    \/ ResolveStart
    \/ \E o \in Orders(corpus), raises \in BOOLEAN : ResolveScan(o, raises)
    \/ \E f \in Fetches : ResolveDownload(f.resp, f.env)
    \/ ResolveTechnique
    \/ ResolveRemove
    \/ ResolveGate
    \/ \E auto \in AutoAnswers : ResolveAuto(auto)
    \/ \E a \in {ApiError, ApiNoSuccess, Top} : ResolveListing(a)
    \/ ResolveAppend

SpecResolve == InitResolve /\ [][NextResolve]_vars

\* every call returns: a step that is possible is taken
SpecResolveFair == SpecResolve /\ WF_vars(NextResolve)

----------------------------------------------------------------------------
(* C25 *)

\* the requests of the last round that went to SteamGridDB
SgdbRequests == {i \in 1..Len(reqs) : Contains(reqs[i], SgdbApi)}

\* C25: in a round of import_steam, a request to SteamGridDB is issued only
\* after the CDN request of the same app and only when steam_cdn_to_png
\* returned the empty string; when steam_cdn_to_png returned a path, no
\* request goes to SteamGridDB and that path is the image-path of the entry;
\* when both lookups returned the empty string the entry is appended all the
\* same, with the empty string as its image-path
C25_CdnThenSgdb ==
    (fn = "import_steam" /\ ~trail.skipped) =>
        /\ \A i \in SgdbRequests :
              /\ trail.local_png = ""
              /\ \E j \in 1..(i - 1) : reqs[j] = CdnUrl(run.games[run.at - 1].appid)
        /\ trail.local_png # "" =>
              /\ SgdbRequests = {}
              /\ ~trail.sgdb_called
              /\ apps[Len(apps)].image_path = trail.local_png
        /\ trail.local_png = "" => trail.sgdb_called
        /\ Len(apps) >= 1
        /\ apps[Len(apps)].name = arg.name
        /\ apps[Len(apps)].image_path = ret
        /\ (trail.local_png = "" /\ ret = "") => apps[Len(apps)].image_path = ""

\* an app whose CDN cover was converted, after one that got no cover at all
\* although SteamGridDB was asked
C25_Witness ==
    /\ fn = "import_steam"
    /\ Len(apps) = 2
    /\ apps[1].image_path = ""
    /\ apps[2].image_path # ""
    /\ trail.local_png = apps[2].image_path
    /\ reqs = <<CdnUrl(run.games[run.at - 1].appid)>>

----------------------------------------------------------------------------
(* C23 *)

\* no stage stands twice in the log of the resolution: the scan, the
\* autocomplete query, each combination, each technique on each fetched image
NoRepeats == \A i, j \in 1..Len(run.log) : run.log[i] = run.log[j] => i = j

\* the stages the log can hold for the n-th fetched image
StagesOf(n) == {SgTemp(n) \o ":" \o Techniques[t] : t \in 1..Len(Techniques)}

\* C23: provided every call returns (a step that is possible is taken), the
\* resolution of the cover of one game reaches the return of add_heroic, and
\* on the way the local scan, the autocomplete query, each of the four
\* combinations and each of the four techniques on each fetched image is
\* attempted at most once
C23_TerminatesOnce ==
    /\ <>(run.stage = "done")
    /\ [](/\ NoRepeats
          /\ Range(run.log) \subseteq
                {"scan", "autocomplete"} \cup {"combo " \o ToString(k) : k \in 1..Len(Combos)}
                \cup UNION {StagesOf(n) : n \in 1..(Len(Combos) + 1)})

\* a resolution that returned after the scan, the autocomplete query, all four
\* combinations and all four techniques on a fetched image
C23_Witness ==
    /\ run.stage = "done"
    /\ {"scan", "autocomplete", "combo 1", "combo 2", "combo 3", "combo 4"}
           \subseteq Range(run.log)
    /\ \E n \in 1..run.n : StagesOf(n) \subseteq Range(run.log)

----------------------------------------------------------------------------
(* C24 *)

\* the entries of a list that launch a Steam app, a Heroic game, or neither
SteamPart(l)    == SelectSeq(l, LAMBDA e : Contains(e.cmd, "steam -applaunch "))
HeroicPart(l)   == SelectSeq(l, LAMBDA e : Contains(e.cmd, "heroic://launch"))
LauncherPart(l) ==
    SelectSeq(l, LAMBDA e : ~Contains(e.cmd, "steam -applaunch ")
                            /\ ~Contains(e.cmd, "heroic://launch"))

\* the names of the apps of the libraries that no default pattern excludes
RECURSIVE KeptNames(_, _)
KeptNames(lib, i) ==
    IF i > Len(lib) THEN <<>>
    ELSE (IF AnyPatternIn(DefaultBlacklist, lib[i].name) THEN <<>> ELSE <<lib[i].name>>)
         \o KeptNames(lib, i + 1)

\* the names of the entries of a list
NamesOf(l) == [i \in 1..Len(l) |-> l[i].name]

\* what main wrote: the keys env, apps, meta in that order; the apps are the
\* Steam entries of this run, then the entries import_heroic returned, then
\* the launchers, and nothing else
FreshWrite ==
    LET written == fs.apps_json.payload
        listed  == written[2].value
    IN  /\ fs.apps_json.exists
        /\ [i \in 1..Len(written) |-> written[i].key] = <<"env", "apps", "meta">>
        /\ listed = SteamPart(listed) \o HeroicPart(listed) \o LauncherPart(listed)
        /\ NamesOf(SteamPart(listed))
              = (IF run.IMPORT_STEAM THEN KeptNames(run.steam, 1) ELSE <<>>)
        /\ HeroicPart(listed) = (IF run.IMPORT_HEROIC THEN heroic_apps ELSE <<>>)
        /\ \A i \in 1..Len(LauncherPart(listed)) :
              Contains(LauncherPart(listed)[i].image_path, ABS_IMAGES_DIR)
        /\ \A i \in 1..Len(listed) : listed[i] \notin Range(Previous.payload[2].value)
        /\ written[3].value.enabled_importers
              = EnabledImporters(run.IMPORT_STEAM, run.IMPORT_HEROIC)

----------------------------------------------------------------------------
(* C26 *)

\* C26: no temporary file outlives the call that made it: once download_temp
\* returned "" to its caller, and once stretch_png_600x900 and the removal
\* after it are through, no temporary file of the resolution exists, and none
\* exists when add_heroic has returned
C26_NoTempLeft ==
    /\ run.stage \in {"gate", "auto", "listing", "append", "done"} => fs.temps = {}
    /\ (run.stage = "download" /\ run.caller = "sgdb") => fs.temps = {}

----------------------------------------------------------------------------
(* C10 *)

\* the paths, relative to a value, of the value itself and of its descendants
RECURSIVE PathsOf(_)
PathsOf(node) ==
    {<<>>} \cup
    UNION {{<<Children(node)[i].seg>> \o p : p \in PathsOf(Children(node)[i].v)} :
              i \in 1..Len(Children(node))}

\* the value a relative path leads to
RECURSIVE Resolve(_, _)
Resolve(node, p) ==
    IF p = <<>> THEN node
    ELSE LET ch == Children(node)
             i  == CHOOSE j \in 1..Len(ch) : ch[j].seg = Head(p)
         IN  Resolve(ch[i].v, Tail(p))

IsPrefix(p, q) == Len(p) <= Len(q) /\ SubSeq(q, 1, Len(p)) = p

\* C10: _walk_json yields the value itself and each of its descendants exactly
\* once, depth-first and in pre-order (a node before its children, a subtree
\* without interruption), each with the path of keys and indices that leads to
\* it from the start path.
C10_WalkPreOrder ==
    fn = "_walk_json" =>
        LET start  == walked[1].path
            rel(i) == SubSeq(walked[i].path, Len(start) + 1, Len(walked[i].path))
            n      == Len(walked)
        IN  /\ start \in StartPaths
            /\ walked[1].node = doc
            /\ \A i \in 1..n : IsPrefix(start, walked[i].path)
            /\ {rel(i) : i \in 1..n} = PathsOf(doc)
            /\ n = Cardinality(PathsOf(doc))
            /\ \A i \in 1..n : walked[i].node = Resolve(doc, rel(i))
            /\ \A i \in 2..n : \E j \in 1..(i - 1) :
                    walked[j].path = SubSeq(walked[i].path, 1, Len(walked[i].path) - 1)
            /\ \A i \in 1..n, k \in 1..n :
                    (i < k /\ IsPrefix(walked[i].path, walked[k].path)) =>
                        \A j \in i..k : IsPrefix(walked[i].path, walked[j].path)

\* a walk of a document with a grandchild and with the same value at two places
C10_Witness ==
    /\ fn = "_walk_json"
    /\ Len(walked) = 4
    /\ \E i \in 1..Len(walked) : Len(walked[i].path) >= 2
    /\ \E i \in 1..Len(walked), j \in 1..Len(walked) :
            i # j /\ walked[i].node = walked[j].node

----------------------------------------------------------------------------
(* C1 *)

\* the URLs _extract_urls_from_node gives for a list of nodes
UrlsOf(nodes) ==
    {ExtractEach(nodes, 1)[i].url : i \in 1..Len(ExtractEach(nodes, 1))}

\* C1 as stated: when the corpus has an exact-hit node, the URL returned is
\* never one that only fuzzy-hit nodes gave.
C1_AsStated ==
    (fn = "heroic_find_image_url_for_gid" /\ scan.exact_hits # <<>>) =>
        ~(scan.url \in UrlsOf(scan.fuzzy_hits) /\ scan.url \notin UrlsOf(scan.exact_hits))

\* C1: when the exact-hit nodes give at least one candidate, the URL returned
\* is one an exact-hit node gave, never one that only fuzzy-hit nodes gave.
C1_ExactPrecedence ==
    (fn = "heroic_find_image_url_for_gid" /\ UrlsOf(scan.exact_hits) # {}) =>
        /\ scan.url \in UrlsOf(scan.exact_hits)
        /\ ~(scan.url \in UrlsOf(scan.fuzzy_hits) /\ scan.url \notin UrlsOf(scan.exact_hits))

\* the exact-hit pool gave candidates while fuzzy-hit nodes hold other URLs
C1_Witness ==
    /\ fn = "heroic_find_image_url_for_gid"
    /\ UrlsOf(scan.exact_hits) # {}
    /\ UrlsOf(scan.fuzzy_hits) \ UrlsOf(scan.exact_hits) # {}
    /\ scan.url \in UrlsOf(scan.exact_hits)

----------------------------------------------------------------------------
(* C2 *)

\* C2: for a fixed corpus and identifier, heroic_find_image_url_for_gid returns
\* the same URL whatever the order in which the enumeration delivers the files.
C2_Deterministic == Cardinality(found) <= 1

----------------------------------------------------------------------------
(* C3 *)

IsPlaceholder(u) ==
    Contains(Lower(u), "placeholder") \/ Contains(Lower(u), "default")

\* the URL-shaped strings of the string leaves of a node
RECURSIVE RawUrlsFrom(_, _)
RawUrlsFrom(w, i) ==
    IF i > Len(w) THEN {}
    ELSE (IF IsStr(w[i].node) THEN Range(UrlFindAll(w[i].node.s)) ELSE {})
         \cup RawUrlsFrom(w, i + 1)

RawUrls(node) == RawUrlsFrom(_walk_json(node, <<>>), 1)

\* C3: a URL containing "placeholder" or "default", in any letter case, is no
\* candidate of any node handed to the extractor, is not in the ranked list
\* and is never returned; when the matched nodes hold no other URL the
\* result is empty.
C3_NoPlaceholder ==
    fn = "heroic_find_image_url_for_gid" =>
        /\ \A i \in 1..Len(scan.ranked) : ~IsPlaceholder(scan.ranked[i].url)
        /\ \A i \in 1..Len(scan.extracted) :
                \A j \in 1..Len(_extract_urls_from_node(scan.extracted[i].node)) :
                    ~IsPlaceholder(_extract_urls_from_node(scan.extracted[i].node)[j].url)
        /\ ~IsPlaceholder(scan.url)
        /\ (\A i \in 1..Len(scan.extracted) :
                \A u \in RawUrls(scan.extracted[i].node) : IsPlaceholder(u))
             => scan.url = ""

\* the matched nodes hold URLs, every one of them a placeholder in mixed
\* case, under a cover key, in a typed image object and in free text
C3_Witness ==
    /\ fn = "heroic_find_image_url_for_gid"
    /\ scan.url = ""
    /\ \E i \in 1..Len(scan.extracted) :
        LET n == scan.extracted[i].node
        IN  /\ IsStr(Get(n, "cover")) /\ IsPlaceholder(Get(n, "cover").s)
            /\ Get(n, "cover").s # Lower(Get(n, "cover").s)
            /\ IsDict(Get(n, "keyImages"))
            /\ \E u \in RawUrls(Get(n, "text")) : IsPlaceholder(u)
            /\ \A u \in RawUrls(n) : IsPlaceholder(u)

----------------------------------------------------------------------------
(* C8 *)

\* the rank tuple of the ordering, last the negated length of the URL
RankKey(c) ==
    <<c.epic_type_rank, c.cover_key_hit, c.has_ext, c.prefer, c.deprio, 0 - Len(c.url)>>

\* C8: the URL returned is that of a candidate of the harvested pool whose
\* rank tuple no candidate of the pool exceeds; among the candidates that
\* agree with it on the first five fields none has a shorter URL.
C8_RankingOrder ==
    LET pool == Harvest(scan.exact_hits, scan.fuzzy_hits).ranked
    IN  (fn = "heroic_find_image_url_for_gid" /\ pool # <<>>) =>
            \E i \in 1..Len(pool) :
                /\ pool[i].url = scan.url
                /\ \A j \in 1..Len(pool) : ~TupleLess(RankKey(pool[i]), RankKey(pool[j]))
                /\ \A j \in 1..Len(pool) :
                        SubSeq(RankKey(pool[j]), 1, 5) = SubSeq(RankKey(pool[i]), 1, 5)
                            => Len(scan.url) <= Len(pool[j].url)

\* the best candidates agree on the first five fields and differ in length,
\* and the longer one was harvested first
C8_Witness ==
    LET pool == Harvest(scan.exact_hits, scan.fuzzy_hits).ranked
    IN  /\ fn = "heroic_find_image_url_for_gid"
        /\ \E i \in 1..Len(pool), j \in 1..Len(pool) :
                /\ i < j
                /\ pool[j].url = scan.url
                /\ Len(pool[i].url) > Len(pool[j].url)
                /\ SubSeq(RankKey(pool[i]), 1, 5) = SubSeq(RankKey(pool[j]), 1, 5)

----------------------------------------------------------------------------
(* C9 *)

\* how often c occurs in a sequence
Count(seq, c) == Cardinality({i \in 1..Len(seq) : seq[i] = c})

\* two sequences hold the same elements, each as often
SameBag(a, b) ==
    /\ Len(a) = Len(b)
    /\ \A i \in 1..Len(a) : Count(a, a[i]) = Count(b, a[i])

\* C9: the ranked list holds exactly the candidates of the exact-hit nodes or
\* exactly those of the fuzzy-hit nodes, never both; fuzzy-hit nodes reach the
\* extractor only when the exact-hit nodes gave no candidate.
C9_PoolsNotMixed ==
    fn = "heroic_find_image_url_for_gid" =>
        LET ex == ExtractEach(scan.exact_hits, 1)
            fz == ExtractEach(scan.fuzzy_hits, 1)
        IN  /\ SameBag(scan.ranked, ex) \/ SameBag(scan.ranked, fz)
            /\ ex # <<>> => SameBag(scan.ranked, ex)
            /\ \A i \in 1..Len(scan.extracted) :
                    /\ scan.extracted[i].node \in
                            Range(scan.exact_hits) \cup Range(scan.fuzzy_hits)
                    /\ scan.extracted[i].pool = "fuzzy" =>
                            /\ ex = <<>>
                            /\ scan.extracted[i].node \in Range(scan.fuzzy_hits)
                    /\ scan.extracted[i].pool = "exact" =>
                            scan.extracted[i].node \in Range(scan.exact_hits)

\* both pools hold nodes with candidates, and only the exact-hit ones were
\* harvested
C9_Witness ==
    /\ fn = "heroic_find_image_url_for_gid"
    /\ ExtractEach(scan.exact_hits, 1) # <<>>
    /\ ExtractEach(scan.fuzzy_hits, 1) # <<>>
    /\ scan.ranked # <<>>

----------------------------------------------------------------------------
(* Reuse of a valid destination, and the guards of the remote search *)

\* the file exists, is above the minimum size and decodes as a 600x900 PNG
Reusable(f) ==
    f.exists /\ f.size > MinReuseSize /\ f.fmt = "PNG" /\ f.w = CanonW /\ f.h = CanonH

\* C5: a call of steam_cdn_to_png returns the destination path without issuing
\* a request exactly when the destination exists, is above the minimum size
\* and decodes as a PNG of 600x900, and then leaves the file alone; in every
\* other case it issues the CDN request.
C5_ReusePredicate ==
    [][fn' = "steam_cdn_to_png" =>
        /\ (ret' = DstOf(arg') /\ reqs' = <<>>) <=> Reusable(disk[DstOf(arg')])
        /\ Reusable(disk[DstOf(arg')]) => disk' = disk
        /\ ~Reusable(disk[DstOf(arg')]) => reqs' = <<CdnUrl(440)>>]_vars

\* steam_cdn_to_png reused what was there
C5_Witness ==
    /\ fn = "steam_cdn_to_png"
    /\ ret = SteamOut(440)
    /\ reqs = <<>>
    /\ disk[SteamOut(440)] = Image(MinReuseSize + 1, "PNG", CanonW, CanonH)

\* C6: whenever the enabled flag is false or the API key is empty,
\* sgdb_search_by_name and steam_sgdb_to_png return the empty string, issue no
\* request and leave the disk alone, whatever the name and whatever the
\* destination holds.
C6_FailClosed ==
    [][(/\ fn' \in {"sgdb_search_by_name", "steam_sgdb_to_png"}
        /\ (~arg'.enable \/ arg'.api_key = ""))
       => (ret' = "" /\ reqs' = <<>> /\ disk' = disk)]_vars

\* a disabled search for a named game, with a key, over a valid destination
C6_Witness ==
    /\ fn = "sgdb_search_by_name"
    /\ ~arg.enable /\ arg.api_key # "" /\ arg.name # ""
    /\ Reusable(disk[DstOf(arg)])
    /\ ret = "" /\ reqs = <<>>

----------------------------------------------------------------------------
(* Idempotence of the cover paths, and the order of the stages of add_heroic *)

\* the operations that put a cover at a destination
Materializers ==
    {"steam_cdn_to_png", "steam_sgdb_to_png", "heroic_cover_png_from_json",
     "sgdb_search_by_name"}

\* C4: when a cover operation has returned its destination, the destination
\* holds a valid canonical image and the same operation is invoked again with
\* the same arguments over the same sources, the second invocation issues no
\* request and returns the destination path.
C4_Idempotent ==
    [][(/\ fn \in Materializers
        /\ ret = DstOf(arg)
        /\ Reusable(disk[DstOf(arg)])
        /\ fn' = fn /\ arg' = arg /\ corpus' = corpus)
       => (reqs' = <<>> /\ ret' = DstOf(arg))]_vars

\* C7 as stated: the search by name is invoked for a game only when the local
\* scan and ranking returned no URL for it.
C7_AsStated == (fn = "add_heroic" /\ trail.sgdb_called) => trail.local_url = ""

\* C7: add_heroic invokes the search by name only when no image path is at
\* hand after the local stage: none was passed in and the local lookup made no
\* file.  It never invokes it for a game whose local resolution made a file.
C7_FallbackOrder ==
    /\ (fn = "add_heroic" /\ trail.sgdb_called) =>
            (trail.local_png = "" /\ arg.image_path = "")
    /\ (fn = "add_heroic" /\ trail.local_png # "") => ~trail.sgdb_called

\* the search ran for a game whose scan returned a URL that made no file
C7_Witness ==
    /\ fn = "add_heroic"
    /\ trail.sgdb_called
    /\ trail.local_url # ""
    /\ trail.local_png = ""

----------------------------------------------------------------------------
(* Classification of the nodes of the scanned files *)

\* the values of a document: the document and its descendants
ValuesOf(data) == {Resolve(data, p) : p \in PathsOf(data)}

\* the mapping and sequence nodes of the files of the corpus that pass the
\* text prefilter and parse
ScannedContainers ==
    UNION {{n \in ValuesOf(f.data) : IsDict(n) \/ IsList(n)} :
              f \in {x \in corpus : Contains(x.txt, gid) /\ x.data # ParseError}}

\* a mapping with an identifier key whose value, converted to a string, is g
IsExactNode(n, g) ==
    IsDict(n) /\ \E k \in _ID_KEYS : HasKey(n, k) /\ PyStr(Get(n, k)) = g

\* some string leaf of the subtree contains g, or the string conversion of
\* some leaf that is no container equals g
MentionsInSubtree(n, g) ==
    \E v \in ValuesOf(n) :
        \/ IsStr(v) /\ Contains(v.s, g)
        \/ ~IsDict(v) /\ ~IsList(v) /\ PyStr(v) = g

\* C11: a mapping or sequence node of a scanned file is in the exact-hit pool
\* exactly when it is a mapping with an identifier key whose value converts
\* to the identifier; it is in the fuzzy-hit pool exactly when it is no exact
\* hit and its subtree mentions the identifier; no node is in both pools and
\* the pools hold nothing else.
C11_Classification ==
    fn = "heroic_find_image_url_for_gid" =>
        /\ \A n \in ScannedContainers :
                /\ n \in Range(scan.exact_hits) <=> IsExactNode(n, gid)
                /\ n \in Range(scan.fuzzy_hits) <=>
                        (~IsExactNode(n, gid) /\ MentionsInSubtree(n, gid))
        /\ Range(scan.exact_hits) \cap Range(scan.fuzzy_hits) = {}
        /\ Range(scan.exact_hits) \cup Range(scan.fuzzy_hits) \subseteq ScannedContainers

\* a scan with an exact hit that also mentions the identifier, a fuzzy hit by
\* a number equal to the identifier and by no string, and a node in no pool
C11_Witness ==
    /\ fn = "heroic_find_image_url_for_gid"
    /\ \E n \in Range(scan.exact_hits) : MentionsInSubtree(n, gid)
    /\ \E n \in Range(scan.fuzzy_hits) :
            /\ \A v \in ValuesOf(n) : ~(IsStr(v) /\ Contains(v.s, gid))
            /\ \E v \in ValuesOf(n) : v.t = "num" /\ PyStr(v) = gid
    /\ \E n \in ScannedContainers :
            n \notin Range(scan.exact_hits) \cup Range(scan.fuzzy_hits)

----------------------------------------------------------------------------
(* The conversion pipeline *)

\* the place of a technique in the order of the pipeline
PlaceOf(t) == CHOOSE i \in 1..Len(Techniques) : Techniques[i] = t

\* the host has what the technique needs
Installed(t, e) ==
    IF t = "convert" THEN e.have_convert ELSE IF t = "ffmpeg" THEN e.have_ffmpeg ELSE TRUE

\* the technique, run on this host, converts the source
Succeeds(t, e) ==
    IF t = "pil" THEN e.pil_ok
    ELSE IF t = "convert" THEN e.convert_ok
    ELSE IF t = "ffmpeg" THEN e.ffmpeg_ok
    ELSE e.copy_ok

\* C12: in every call of stretch_png_600x900 the techniques run in the order
\* library, convert, ffmpeg, copy; a technique runs exactly when the host has
\* it and every earlier one failed or was not installed; a tool that is not
\* installed never runs; the call fails exactly when no installed technique
\* converts the source, so the absence of a tool alone never makes it fail.
C12_Pipeline ==
    \A i \in 1..Len(convs) :
        LET c == convs[i]
        IN  /\ \A j \in 1..Len(c.tried) : c.tried[j] \in Range(Techniques)
            /\ \A j, k \in 1..Len(c.tried) :
                    j < k => PlaceOf(c.tried[j]) < PlaceOf(c.tried[k])
            /\ \A t \in Range(Techniques) :
                    t \in Range(c.tried) <=>
                        /\ Installed(t, c.env)
                        /\ \A u \in Range(Techniques) :
                                PlaceOf(u) < PlaceOf(t) =>
                                    (~Installed(u, c.env) \/ ~Succeeds(u, c.env))
            /\ c.ok <=> \E t \in Range(Techniques) : Installed(t, c.env) /\ Succeeds(t, c.env)
            /\ ~c.ok => \A t \in Range(Techniques) :
                            ~Installed(t, c.env) \/ (t \in Range(c.tried) /\ ~Succeeds(t, c.env))

\* a conversion on a host without convert: the library failed, ffmpeg ran
\* and failed, the copy made the file
C12_Witness ==
    \E i \in 1..Len(convs) :
        /\ ~convs[i].env.have_convert /\ convs[i].env.have_ffmpeg
        /\ convs[i].tried = <<"pil", "ffmpeg", "copy">>
        /\ convs[i].ok

----------------------------------------------------------------------------
(* The minimum size of a fetched payload *)

\* the operations that fetch a cover and hand it to the conversion
Fetchers ==
    {"steam_cdn_to_png", "steam_sgdb_to_png", "sgdb_search_by_name",
     "heroic_cover_png_from_json", "add_heroic"}

\* C13: no payload below the minimum size reaches the conversion in any
\* operation that fetches a cover, so none makes a destination file.
C13_MinPayload ==
    fn \in Fetchers =>
        \A i \in 1..Len(convs) : convs[i].src.size >= MinPayloadSize

----------------------------------------------------------------------------
(* The image lookup of sgdb_search_by_name *)

\* the combinations whose listing was requested by the last search
AskedCombos == {k \in 1..Len(Combos) : ComboUrl(k, sgdb.game_id) \in Range(reqs)}

\* where a URL stands first in the requests
FirstAt(u) == CHOOSE i \in 1..Len(reqs) : reqs[i] = u /\ \A j \in 1..(i - 1) : reqs[j] # u

\* C14: once a game is picked, the listings are requested in the order
\* (grids, 600x900), (grids, no filter), (heroes, 600x900), (heroes, no
\* filter) and none is passed over, whatever went wrong in the ones before; the
\* search returns empty only after it has requested all four.
C14_ErrorIsolation ==
    (fn = "sgdb_search_by_name" /\ sgdb.game_id # 0) =>
        /\ \E n \in 1..Len(Combos) : AskedCombos = 1..n
        /\ \A j, k \in AskedCombos :
                j < k => FirstAt(ComboUrl(j, sgdb.game_id)) < FirstAt(ComboUrl(k, sgdb.game_id))
        /\ ret = "" => AskedCombos = 1..Len(Combos)

\* the place of the first result whose lower-cased title contains every word
\* of ws, 0 when there is none
FirstWith(search_data, ws) ==
    LET hits == {i \in 1..Len(search_data) :
                    \A w \in ws : Contains(Lower(search_data[i].name), w)}
    IN  IF hits = {} THEN 0 ELSE CHOOSE i \in hits : \A j \in hits : i <= j

\* the result the choice rule names: for a name with "castlevania" and "lords
\* of shadow" the first result with "lords of shadow" and "ultimate", else the
\* first with "lords of shadow"; in every other case the first result
PreferredResult(game_name, search_data) ==
    LET n == Lower(game_name)
    IN  IF Contains(n, "castlevania") /\ Contains(n, "lords of shadow")
        THEN IF FirstWith(search_data, {"lords of shadow", "ultimate"}) # 0
             THEN search_data[FirstWith(search_data, {"lords of shadow", "ultimate"})]
             ELSE IF FirstWith(search_data, {"lords of shadow"}) # 0
             THEN search_data[FirstWith(search_data, {"lords of shadow"})]
             ELSE search_data[1]
        ELSE search_data[1]

\* C15: when the autocomplete request answers with a list that is not empty,
\* the game picked is the one the preference rule names and, when the rule
\* applies to no result, the first result.
C15_ResultChoice ==
    (fn = "sgdb_search_by_name" /\ sgdb.search_data # <<>>) =>
        sgdb.game_id = PreferredResult(arg.name, sgdb.search_data).id

----------------------------------------------------------------------------
(* Files that do not parse *)

\* the files of the last scan, in the order the enumeration delivered them
ScannedFiles == [i \in 1..Len(scan.order) |-> CHOOSE f \in corpus : f.name = scan.order[i]]

\* files from the i-th on, without those that do not parse
RECURSIVE WithoutMalformed(_, _)
WithoutMalformed(files, i) ==
    IF i > Len(files) THEN <<>>
    ELSE (IF files[i].data = ParseError THEN <<>> ELSE <<files[i]>>)
         \o WithoutMalformed(files, i + 1)

\* C16: a file that passes the text prefilter and does not parse is skipped
\* and the scan goes on: the URL returned is the one returned for the same
\* files, in the same order, with the files that do not parse taken out.
C16_MalformedSkipped ==
    fn = "heroic_find_image_url_for_gid" =>
        scan.url = heroic_find_image_url_for_gid(WithoutMalformed(ScannedFiles, 1), gid).url

\* a scan that met a file that mentions the identifier and does not parse,
\* then a file with a cover, and returned that cover
C16_Witness ==
    /\ fn = "heroic_find_image_url_for_gid"
    /\ Len(scan.order) = 2
    /\ ScannedFiles[1].data = ParseError
    /\ Contains(ScannedFiles[1].txt, gid)
    /\ scan.url # ""

----------------------------------------------------------------------------
(* Cover keys and typed image objects *)

\* the URL-shaped string values under the cover keys of the exact-hit mappings
ExactCoverUrls ==
    UNION {{Get(n, k).s : k \in {c \in _COVER_KEYS :
                                    HasKey(n, c) /\ IsStr(Get(n, c)) /\ UrlMatch(Get(n, c).s)}} :
              n \in {x \in Range(scan.exact_hits) : IsDict(x)}}

\* u is in the ranked list as a cover-key candidate; the candidate returned
\* is none of type rank 0 that is no cover-key candidate; the walk harvested
\* u as well when the whole value is the URL
CoverKeyWins(u) ==
    /\ \E i \in 1..Len(scan.ranked) :
            scan.ranked[i].url = u /\ scan.ranked[i].cover_key_hit = 1
    /\ scan.url = scan.ranked[1].url
    /\ scan.ranked[1].epic_type_rank > 0 \/ scan.ranked[1].cover_key_hit = 1
    /\ UrlFindAll(u) = <<u>> =>
            \E i \in 1..Len(scan.ranked) :
                scan.ranked[i].url = u /\ scan.ranked[i].cover_key_hit = 0

\* Scenario A: the one-file corpus {"appName":"123","art_cover":...}
ScenarioA ==
    (/\ fn = "heroic_find_image_url_for_gid"
     /\ gid = "123"
     /\ \E f \in corpus : corpus = {f} /\ f.txt =
            "{\"appName\":\"123\",\"art_cover\":\"https://x/cover.jpg\"}")
        => scan.url = "https://x/cover.jpg"

\* C19 as stated: every URL-shaped string under a cover key of an exact-hit
\* mapping is in the candidate list with cover_key_hit = 1 and is selected
\* over every candidate of the same type rank with cover_key_hit = 0.
C19_AsStated ==
    /\ fn = "heroic_find_image_url_for_gid" => \A u \in ExactCoverUrls : CoverKeyWins(u)
    /\ ScenarioA

\* C19: every URL-shaped string under a cover key of an exact-hit mapping that
\* contains neither "placeholder" nor "default" is in the candidate list with
\* cover_key_hit = 1, and the candidate returned is then none of type rank 0
\* with cover_key_hit = 0, although the walk harvests the same URL with
\* cover_key_hit = 0; Scenario A returns https://x/cover.jpg.
C19_CoverKeyPrecedence ==
    /\ fn = "heroic_find_image_url_for_gid" =>
            \A u \in ExactCoverUrls : ~IsPlaceholder(u) => CoverKeyWins(u)
    /\ ScenarioA

\* the cover-key URL was returned although a candidate from free text, of the
\* same type rank, scores higher on every later field
C19_Witness ==
    /\ fn = "heroic_find_image_url_for_gid"
    /\ scan.url \in ExactCoverUrls
    /\ \E i \in 1..Len(scan.ranked) :
            /\ scan.ranked[i].url # scan.url
            /\ scan.ranked[i].epic_type_rank = scan.ranked[1].epic_type_rank
            /\ scan.ranked[i].cover_key_hit = 0
            /\ TupleLess(SubSeq(RankKey(scan.ranked[1]), 3, 6), SubSeq(RankKey(scan.ranked[i]), 3, 6))

\* the type rank of a type string: 2 for a preferred type, 1 for a type that
\* hints at the orientation, 0 otherwise
TypeRank(t) ==
    IF t \in Range(_EPIC_TYPE_PREFER) THEN 2
    ELSE IF \E hint \in {"Tall", "Vertical", "BoxArt"} : Contains(t, hint) THEN 1
    ELSE 0

\* the image objects under the image-container keys of a node: the mappings
\* among the items of a sequence or the values of a mapping
ImageObjects(n) ==
    IF ~IsDict(n) THEN {}
    ELSE UNION {{ch.v : ch \in Range(Children(Get(n, k)))} :
                        k \in {c \in Range(ImageContainerKeys) : HasKey(n, c)}}

\* the type string of an image object
TypeOf(obj) == IF HasKey(obj, "type") THEN PyStr(Get(obj, "type")) ELSE ""

\* C20: every image object under an image-container key of a harvested node
\* that carries a URL is a candidate whose type rank is 2 for a preferred
\* type, 1 for a type with an orientation hint and 0 otherwise; the candidate
\* returned has the highest type rank of the list; Scenario B returns the
\* DieselGameBoxTall URL.
C20_TypeRank ==
    fn = "heroic_find_image_url_for_gid" =>
        /\ \A i \in 1..Len(scan.extracted) :
                \A obj \in ImageObjects(scan.extracted[i].node) :
                    (/\ IsDict(obj)
                     /\ IsStr(ImgObjUrl(obj))
                     /\ UrlMatch(ImgObjUrl(obj).s)
                     /\ ~IsPlaceholder(ImgObjUrl(obj).s))
                    => \E j \in 1..Len(scan.ranked) :
                            /\ scan.ranked[j].url = ImgObjUrl(obj).s
                            /\ scan.ranked[j].epic_type_rank = TypeRank(TypeOf(obj))
        /\ scan.ranked # <<>> =>
                /\ scan.url = scan.ranked[1].url
                /\ \A j \in 1..Len(scan.ranked) :
                        scan.ranked[j].epic_type_rank <= scan.ranked[1].epic_type_rank
        /\ (gid = "123" /\ \E f \in corpus : corpus = {f} /\ f.name = "c.json")
                => scan.url = "https://x/a.png"

\* the object of a preferred type was returned although an object without
\* rank, equal in every other field, was harvested before it
C20_Witness ==
    /\ fn = "heroic_find_image_url_for_gid"
    /\ scan.ranked # <<>>
    /\ scan.ranked[1].epic_type_rank = 2
    /\ \E i \in 1..Len(scan.extracted) :
            \E a, b \in ImageObjects(scan.extracted[i].node) :
                /\ TypeRank(TypeOf(a)) = 2 /\ TypeRank(TypeOf(b)) = 0
                /\ ImgObjUrl(a).s = scan.url
                /\ ImgObjUrl(b).s # scan.url
                /\ Len(ImgObjUrl(b).s) = Len(scan.url)

----------------------------------------------------------------------------
(* C17 *)

\* the name blacklist skips the game g: the blacklist of the settings names the
\* words demo and beta
Skips(g) ==
    /\ run.cfg.blacklist = "demo|beta"
    /\ Contains(Lower(g.title), "demo") \/ Contains(Lower(g.title), "beta")

\* the games the loops have handled so far
Handled == SubSeq(run.games, 1, run.at - 1)

\* the games among them that the blacklist lets through
RECURSIVE KeptFrom(_, _)
KeptFrom(games, i) ==
    IF i > Len(games) THEN <<>>
    ELSE (IF Skips(games[i]) THEN <<>> ELSE <<games[i]>>) \o KeptFrom(games, i + 1)

\* no conversion of the last round left a usable file
NothingConverted == \A k \in 1..Len(convs) : ~(convs[k].ok /\ convs[k].file.exists)

\* C17: cover failures never abort the batch.  After every round of the
\* loops, heroic_apps holds exactly one entry for each handled game that is not
\* blacklisted, in the order of the loops, whatever failed in the scan, the
\* download, the conversion or the search; and when the round was given no
\* image path and none of its conversions left a file, the entry's image path
\* is the empty string.
C17_NeverAborts ==
    /\ Len(heroic_apps) = Len(KeptFrom(Handled, 1))
    /\ \A i \in 1..Len(heroic_apps) :
            /\ i <= Len(KeptFrom(Handled, 1))
            /\ heroic_apps[i].name
                  = KeptFrom(Handled, 1)[i].title \o " (" \o KeptFrom(Handled, 1)[i].src \o ")"
    /\ (/\ fn = "add_heroic"
        /\ ~Skips(run.games[run.at - 1])
        /\ arg.image_path = ""
        /\ NothingConverted)
       => heroic_apps[Len(heroic_apps)].image_path = ""

\* the scan of the second game raised and its search failed after the first
\* game had got no cover either: both games have their entry, with an empty
\* image path
C17_Witness ==
    /\ fn = "add_heroic"
    /\ run.at = 3
    /\ Len(heroic_apps) = 2
    /\ trail.raised
    /\ trail.sgdb_called
    /\ heroic_apps[1].image_path = ""
    /\ heroic_apps[2].image_path = ""

----------------------------------------------------------------------------
(* C18 *)

\* C18: destination paths are unique per game.  Two entries of one run that
\* launch different games (their commands name different identifiers or
\* different runners) never carry the same non-empty image path.
C18_UniqueDestinations ==
    \A i, j \in 1..Len(heroic_apps) :
        (heroic_apps[i].cmd # heroic_apps[j].cmd /\ heroic_apps[i].image_path # "")
        => heroic_apps[i].image_path # heroic_apps[j].image_path

----------------------------------------------------------------------------
(* C21 *)

\* the first place of the sorted list that carries the URL u
FirstPlace(u) == CHOOSE i \in 1..Len(scan.ranked) :
                    scan.ranked[i].url = u /\ \A j \in 1..(i - 1) : scan.ranked[j].url # u

\* C21: heroic_find_image_url_for_gid returns the empty string exactly when
\* the candidate list of the selected pool is empty; otherwise it returns the
\* URL of the first candidate after the sort.  The deduplication does not
\* change which URL comes first: every URL stands, at its first place, with
\* the best of its rank tuples.
C21_ResultShape ==
    fn = "heroic_find_image_url_for_gid" =>
        /\ (scan.url = "") <=> (scan.ranked = <<>>)
        /\ (ret = "") <=> (Harvest(scan.exact_hits, scan.fuzzy_hits).ranked = <<>>)
        /\ ret = scan.url
        /\ scan.ranked # <<>> => scan.url = scan.ranked[1].url
        /\ \A j \in 1..Len(scan.ranked) :
                ~TupleLess(RankKey(scan.ranked[FirstPlace(scan.ranked[j].url)]),
                           RankKey(scan.ranked[j]))

\* the returned URL stands in the sorted list with two rank tuples, and
\* another URL stands between them
C21_Witness ==
    /\ fn = "heroic_find_image_url_for_gid"
    /\ \E i, k, j \in 1..Len(scan.ranked) :
            /\ i < k /\ k < j
            /\ scan.ranked[i].url = scan.url
            /\ scan.ranked[j].url = scan.url
            /\ scan.ranked[k].url # scan.url
            /\ RankKey(scan.ranked[i]) # RankKey(scan.ranked[j])

----------------------------------------------------------------------------
(* C22 *)

\* the score of an image object, 0 when it carries none
ScoreOr0(x) == IF "score" \in DOMAIN x THEN x.score ELSE 0

\* the URLs of the entries of a listing that no entry outscores
TopUrls(items) ==
    {items[i].url : i \in {n \in 1..Len(items) :
                              \A j \in 1..Len(items) : ScoreOr0(items[j]) <= ScoreOr0(items[n])}}

\* the operation uses the listing response l: sgdb_search_by_name asks for its
\* success flag, steam_sgdb_to_png reads the data as they are
Used(l) == l.api.success \/ fn = "steam_sgdb_to_png"

====
